---- MODULE Spec2Model ----
(***************************************************************************)
(* bravia-api-rs: the capability-aware request dispatch of the Bravia      *)
(* client (src/src/lib.rs), the discovery call that fills its capability   *)
(* cache (src/src/guide/mod.rs) and a representative set of the public     *)
(* call sites that go through it.                                          *)
(***************************************************************************)
EXTENDS Naturals, Sequences, FiniteSets, TLC

VARIABLES
    phase,        \* "start" | "ready" (new returned Ok) | "failed" (new returned Err) | "aborted" (new panicked)
    base_url,     \* Bravia.base_url, as the sequence of its parts
    auth,         \* Bravia.auth : Option<String>, as a sequence of length 0 or 1
    api_support,  \* Bravia.api_support : service -> api -> versions
    boot,         \* the discovery exchange made by Bravia::new
    call,         \* the public operation in progress or last completed
    calls         \* the public operations running concurrently, one per task

vars == <<phase, base_url, auth, api_support, boot, call, calls>>

----------------------------------------------------------------------------
(* Bounds *)

\* longest `result` array a device response carries
MaxResultLen == 2
\* longest service list a discovery response carries
MaxServices == 2
\* tasks that call operations of one client concurrently
MaxConcurrent == 2

----------------------------------------------------------------------------
(* serde_json::Value.  Every value is a record of the same five fields so  *)
(* that values of different JSON types can be compared.                    *)

JNull == [t |-> "null", s |-> "", n |-> 0, k |-> <<>>, a |-> <<>>]
JStr(str) == [t |-> "str", s |-> str, n |-> 0, k |-> <<>>, a |-> <<>>]
JNum(num) == [t |-> "num", s |-> "", n |-> num, k |-> <<>>, a |-> <<>>]
JArr(elems) == [t |-> "arr", s |-> "", n |-> 0, k |-> <<>>, a |-> elems]
\* an object: keys and values in parallel sequences, keys distinct
JObj(keys, vals) == [t |-> "obj", s |-> "", n |-> 0, k |-> keys, a |-> vals]

None == <<>>
Some(v) == <<v>>

\* serde_json::Map::get / Value::get(&str): Some(value) of the key, None when
\* the value is no object or has no such key
JGet(j, key) ==
    IF j.t = "obj" /\ \E i \in DOMAIN j.k : j.k[i] = key
    THEN Some(j.a[CHOOSE i \in DOMAIN j.k : j.k[i] = key])
    ELSE None

\* Value::get_mut(usize): Some(element) of an array, None when out of bounds
\* or when the value is no array (indices are 0-based in the source)
JGetIndex(j, idx) ==
    IF j.t = "arr" /\ idx + 1 \in DOMAIN j.a THEN Some(j.a[idx + 1]) ELSE None

\* all sequences over S of length at most n
SeqsUpTo(S, n) == UNION {[1..m -> S] : m \in 0..n}


----------------------------------------------------------------------------
(* std::result::Result<T, Error> and a panic, as one record shape.         *)

Ok(v) == [kind |-> "Ok", err |-> "", status |-> 0, val |-> v]
Err(e) == [kind |-> "Err", err |-> e, status |-> 0, val |-> JNull]
ErrBadStatus(code) == [kind |-> "Err", err |-> "BadStatus", status |-> code, val |-> JNull]
ErrBravia(e) == [kind |-> "Err", err |-> "BraviaError", status |-> 0, val |-> e]
Panic == [kind |-> "Panic", err |-> "", status |-> 0, val |-> JNull]
\* no outcome yet
Pending == [kind |-> "Pending", err |-> "", status |-> 0, val |-> JNull]

----------------------------------------------------------------------------
(* guide: ServiceData, Api, Versions and their deserialization.            *)

\* serde: a struct is read from an object that has every required field with
\* a value of the field's type; unknown fields are ignored
HasStr(j, key) == JGet(j, key) # None /\ JGet(j, key)[1].t = "str"
HasArr(j, key) == JGet(j, key) # None /\ JGet(j, key)[1].t = "arr"

IsVersions(j) == HasStr(j, "version")
IsApi(j) ==
    /\ HasStr(j, "name")
    /\ HasArr(j, "versions")
    /\ \A i \in DOMAIN JGet(j, "versions")[1].a : IsVersions(JGet(j, "versions")[1].a[i])
IsServiceData(j) ==
    /\ HasStr(j, "service")
    /\ HasArr(j, "protocols")
    /\ HasArr(j, "apis")
    /\ \A i \in DOMAIN JGet(j, "apis")[1].a : IsApi(JGet(j, "apis")[1].a[i])
IsServiceDataVec(j) ==
    j.t = "arr" /\ \A i \in DOMAIN j.a : IsServiceData(j.a[i])

ToVersions(j) == [version |-> JGet(j, "version")[1].s]
ToApi(j) == [name |-> JGet(j, "name")[1].s,
             versions |-> [i \in DOMAIN JGet(j, "versions")[1].a |->
                              ToVersions(JGet(j, "versions")[1].a[i])]]
ToServiceData(j) == [service |-> JGet(j, "service")[1].s,
                     apis |-> [i \in DOMAIN JGet(j, "apis")[1].a |->
                                 ToApi(JGet(j, "apis")[1].a[i])]]
\* serde_json::from_value::<Vec<ServiceData>>, defined when IsServiceDataVec(j)
ToServiceDataVec(j) == [i \in DOMAIN j.a |-> ToServiceData(j.a[i])]

----------------------------------------------------------------------------
(* The capability cache.                                                   *)

\* HashMap::new()
EmptyMap == <<>>
\* mutant of MapInsert: an existing key keeps its value
MapInsert_keep(m, key, v) ==
    [x \in DOMAIN m \cup {key} |-> IF x \in DOMAIN m THEN m[x] ELSE v]
\* mutant of MapInsert: the value of an existing key is merged with the new
\* one, key by key
MapInsert_merge(m, key, v) ==
    [x \in DOMAIN m \cup {key} |->
        IF x # key THEN m[x]
        ELSE IF key \notin DOMAIN m THEN v
        ELSE [y \in DOMAIN m[key] \cup DOMAIN v |->
                 IF y \in DOMAIN v THEN v[y] ELSE m[key][y]]]
\* HashMap::insert: the value of an existing key is replaced
MapInsert(m, key, v) == [x \in DOMAIN m \cup {key} |-> IF x = key THEN v ELSE m[x]]

\* api.versions.iter().map(|x| x.version.to_string()).collect()
ApiVersions(api) == [i \in DOMAIN api.versions |-> api.versions[i].version]

RECURSIVE InsertApis(_, _)
\* the inner loop of create_supported_api_cache over service.apis
InsertApis(apis, service_apis) ==
    IF apis = <<>> THEN service_apis
    ELSE InsertApis(Tail(apis),
                    MapInsert(service_apis, Head(apis).name, ApiVersions(Head(apis))))

RECURSIVE InsertServices(_, _)
\* the outer loop of create_supported_api_cache over the discovered services
InsertServices(services, cache) ==
    IF services = <<>> THEN cache
    ELSE InsertServices(Tail(services),
                        MapInsert(cache, Head(services).service,
                                  InsertApis(Head(services).apis, EmptyMap)))

\* Bravia::create_supported_api_cache, given the Ok value of the discovery
\* call, from the empty cache Bravia::new starts with
create_supported_api_cache(services) == InsertServices(services, EmptyMap)

\* mutant of is_api_supported: the two not-found errors are exchanged
is_api_supported_swapped(cache, service, api, api_level) ==
    IF service \in DOMAIN cache
    THEN IF api \in DOMAIN cache[service]
         THEN IF \E i \in DOMAIN cache[service][api] : cache[service][api][i] = api_level
              THEN Ok(JNull)
              ELSE Err("BraviaApiLevelError")
         ELSE Err("BraviaApiServiceNotFound")
    ELSE Err("BraviaApiNotFound")

\* Bravia::is_api_supported
is_api_supported(cache, service, api, api_level) ==
    IF service \in DOMAIN cache
    THEN IF api \in DOMAIN cache[service]
         THEN IF \E i \in DOMAIN cache[service][api] : cache[service][api][i] = api_level
              THEN Ok(JNull)
              ELSE Err("BraviaApiLevelError")
         ELSE Err("BraviaApiNotFound")
    ELSE Err("BraviaApiServiceNotFound")

----------------------------------------------------------------------------
(* RequestBody, Request and their builders.                                *)

JBool(b) == [t |-> "bool", s |-> IF b THEN "true" ELSE "false", n |-> 0, k |-> <<>>, a |-> <<>>]

\* RequestBodyBuilder::default(): no field set
RequestBodyBuilder == [id |-> None, method |-> None, version |-> None, params |-> None]
RB_id(b, value) == [b EXCEPT !.id = Some(value)]
RB_method(b, value) == [b EXCEPT !.method = Some(value)]
\* RequestBodyBuilder::version, value : Option<&str>
RB_version(b, value) == [b EXCEPT !.version = IF value = None THEN Some("1.0") ELSE value]
\* mutant of RB_params: an empty object is taken for no parameter
RB_params_skipEmpty(b, values) ==
    [b EXCEPT !.params = IF values = JObj(<<>>, <<>>) THEN Some(<<>>) ELSE Some(<<values>>)]
\* RequestBodyBuilder::params: the value is wrapped in a one-element vector
RB_params(b, values) == [b EXCEPT !.params = Some(<<values>>)]
\* RequestBodyBuilder::build with the field defaults of RequestBody
\* (every call site sets id and method)
RB_build(b) ==
    [id |-> b.id[1],
     method |-> b.method[1],
     version |-> IF b.version = None THEN "1.0" ELSE b.version[1],
     params |-> IF b.params = None THEN <<>> ELSE b.params[1]]

\* RequestGetElementType
Index(i) == [tag |-> "Index", idx |-> i, name |-> ""]
Text(f) == [tag |-> "Text", idx |-> 0, name |-> f]

\* RequestBuilder::default() with endpoint and body set, as every call site does
RequestBuilder(endpoint, body) ==
    [endpoint |-> endpoint, body |-> body, is_protected |-> None,
     has_result |-> None, get |-> None]
R_is_protected(r) == [r EXCEPT !.is_protected = Some(TRUE)]
R_has_result(r) == [r EXCEPT !.has_result = Some(TRUE)]
R_get(r, g) == [r EXCEPT !.get = Some(g)]
\* RequestBuilder::build with the field defaults of Request
R_build(r) ==
    [endpoint |-> r.endpoint,
     body |-> r.body,
     is_protected |-> IF r.is_protected = None THEN FALSE ELSE r.is_protected[1],
     has_result |-> IF r.has_result = None THEN FALSE ELSE r.has_result[1],
     get |-> IF r.get = None THEN Index(0) ELSE r.get[1]]

\* serde_json::to_string(&req.body): the derived Serialize of RequestBody
SerializeBody(body) ==
    JObj(<<"id", "method", "version", "params">>,
         <<JNum(body.id), JStr(body.method), JStr(body.version), JArr(body.params)>>)

----------------------------------------------------------------------------
(* The device's answer to one HTTP request.                                *)

\* the body is not JSON
NotJson == [valid |-> FALSE, json |-> JNull]
JsonBody(j) == [valid |-> TRUE, json |-> j]
\* a JSON object body with the optional keys `result` and `error`
EnvelopeBody(result, error) ==
    JsonBody(JObj((IF result = None THEN <<>> ELSE <<"result">>)
                      \o (IF error = None THEN <<>> ELSE <<"error">>),
                  result \o error))

\* reqwest's send() failed: no response
TransportError == [ok |-> FALSE, status |-> 0, body |-> NotJson]
HttpResponse(status, body) == [ok |-> TRUE, status |-> status, body |-> body]

----------------------------------------------------------------------------
(* Bravia::make_request, in its two halves around the await of send().     *)

\* mutant of HttpRequest: the URL ends with the method name
HttpRequest_byMethod(url_base, psk, req) ==
    [verb |-> "POST",
     url |-> url_base \o <<req.body.method>>,
     psk |-> psk,
     content_type |-> "application/json",
     body |-> SerializeBody(req.body)]
\* the HTTP request make_request sends
HttpRequest(url_base, psk, req) ==
    [verb |-> "POST",
     url |-> url_base \o <<req.endpoint>>,
     psk |-> psk,
     content_type |-> "application/json",
     body |-> SerializeBody(req.body)]

\* mutant of make_request_send: the capability check is left out
make_request_send_unchecked(url_base, credential, cache, req) ==
    IF req.is_protected /\ credential = None
    THEN [result |-> Err("BraviaAuthLevelError"), http |-> <<>>]
    ELSE [result |-> Pending,
          http |-> << HttpRequest(url_base,
                                  IF req.is_protected THEN credential[1] ELSE "", req) >>]

\* mutant of make_request_send: a missing credential is sent as the empty one
make_request_send_noauth(url_base, credential, cache, req) ==
    LET supported == IF req.body.method # "getSupportedApiInfo"
                     THEN is_api_supported(cache, req.endpoint, req.body.method,
                                           req.body.version)
                     ELSE Ok(JNull)
    IN  IF supported.kind # "Ok"
        THEN [result |-> supported, http |-> <<>>]
        ELSE [result |-> Pending,
              http |-> << HttpRequest(url_base,
                                      IF req.is_protected /\ credential # None
                                      THEN credential[1] ELSE "", req) >>]

\* mutant of make_request_send: the discovery method is checked against the
\* cache like every other method
make_request_send_allChecked(url_base, credential, cache, req) ==
    LET supported == is_api_supported(cache, req.endpoint, req.body.method,
                                      req.body.version)
    IN  IF supported.kind # "Ok"
        THEN [result |-> supported, http |-> <<>>]
        ELSE IF req.is_protected /\ credential = None
        THEN [result |-> Err("BraviaAuthLevelError"), http |-> <<>>]
        ELSE [result |-> Pending,
              http |-> << HttpRequest(url_base,
                                      IF req.is_protected THEN credential[1] ELSE "",
                                      req) >>]

\* mutant of make_request_send: a stored credential is sent with every request
make_request_send_credential(url_base, credential, cache, req) ==
    LET supported == IF req.body.method # "getSupportedApiInfo"
                     THEN is_api_supported(cache, req.endpoint, req.body.method,
                                           req.body.version)
                     ELSE Ok(JNull)
    IN  IF supported.kind # "Ok"
        THEN [result |-> supported, http |-> <<>>]
        ELSE IF req.is_protected /\ credential = None
        THEN [result |-> Err("BraviaAuthLevelError"), http |-> <<>>]
        ELSE [result |-> Pending,
              http |-> << HttpRequest(url_base,
                                      IF credential # None THEN credential[1] ELSE "",
                                      req) >>]

\* mutant of make_request_send: the credential check comes first
make_request_send_authFirst(url_base, credential, cache, req) ==
    LET supported == IF req.body.method # "getSupportedApiInfo"
                     THEN is_api_supported(cache, req.endpoint, req.body.method,
                                           req.body.version)
                     ELSE Ok(JNull)
    IN  IF req.is_protected /\ credential = None
        THEN [result |-> Err("BraviaAuthLevelError"), http |-> <<>>]
        ELSE IF supported.kind # "Ok"
        THEN [result |-> supported, http |-> <<>>]
        ELSE [result |-> Pending,
              http |-> << HttpRequest(url_base,
                                      IF req.is_protected THEN credential[1] ELSE "",
                                      req) >>]
\* lines 219-244: the capability check, the credential check and the request
\* that is sent.  result is Pending when a request was sent.
make_request_send(url_base, credential, cache, req) ==
    LET supported == IF req.body.method # "getSupportedApiInfo"
                     THEN is_api_supported(cache, req.endpoint, req.body.method,
                                           req.body.version)
                     ELSE Ok(JNull)
    IN  IF supported.kind # "Ok"
        THEN [result |-> supported, http |-> <<>>]
        ELSE IF req.is_protected /\ credential = None
        THEN [result |-> Err("BraviaAuthLevelError"), http |-> <<>>]
        ELSE [result |-> Pending,
              http |-> << HttpRequest(url_base,
                                      IF req.is_protected THEN credential[1] ELSE "",
                                      req) >>]

\* serde_json::from_value::<BraviaErrorCode> succeeds: the derived Deserialize
\* reads an object with code and message, or the array [code, message]
IsBraviaErrorCode(j) ==
    \/ /\ JGet(j, "code") # None /\ JGet(j, "code")[1].t = "num"
       /\ JGet(j, "code")[1].n >= 0
       /\ HasStr(j, "message")
    \/ /\ j.t = "arr" /\ Len(j.a) = 2
       /\ j.a[1].t = "num" /\ j.a[1].n >= 0
       /\ j.a[2].t = "str"

\* mutant of Extract: the index policy counts the elements from one
Extract_oneBased(result, get) ==
    IF get.tag = "Index"
    THEN IF JGetIndex(result, get.idx - 1) = None
         THEN Err("MissingValue")
         ELSE Ok(JGetIndex(result, get.idx - 1)[1])
    ELSE IF JGetIndex(result, 0) = None
         THEN Panic
         ELSE IF JGet(JGetIndex(result, 0)[1], get.name) = None
              THEN Err("MissingValue")
              ELSE Ok(JGet(JGetIndex(result, 0)[1], get.name)[1])
\* lines 253-257: the element the call site asked for.  result[0] on a value
\* that is no array or an empty array is serde_json's IndexMut, which panics.
Extract(result, get) ==
    IF get.tag = "Index"
    THEN IF JGetIndex(result, get.idx) = None
         THEN Err("MissingValue")
         ELSE Ok(JGetIndex(result, get.idx)[1])
    ELSE IF JGetIndex(result, 0) = None
         THEN Panic
         ELSE IF JGet(JGetIndex(result, 0)[1], get.name) = None
              THEN Err("MissingValue")
              ELSE Ok(JGet(JGetIndex(result, 0)[1], get.name)[1])

\* mutant of ClassifyBody: the `error` key is looked at before `result`
ClassifyBody_errorFirst(req, body) ==
    IF ~body.valid
    THEN Err("NetworkError")
    ELSE IF JGet(body.json, "error") # None
    THEN IF IsBraviaErrorCode(JGet(body.json, "error")[1])
         THEN ErrBravia(JGet(body.json, "error")[1])
         ELSE Err("DeserializeError")
    ELSE IF JGet(body.json, "result") # None
    THEN IF req.has_result
         THEN Extract(JGet(body.json, "result")[1], req.get)
         ELSE Ok(JNull)
    ELSE Err("InvalidResponse")

\* mutant of ClassifyBody: a body that is not JSON is an invalid response
ClassifyBody_notJsonInvalid(req, body) ==
    IF ~body.valid
    THEN Err("InvalidResponse")
    ELSE IF JGet(body.json, "result") # None
    THEN IF req.has_result
         THEN Extract(JGet(body.json, "result")[1], req.get)
         ELSE Ok(JNull)
    ELSE IF JGet(body.json, "error") # None
    THEN IF IsBraviaErrorCode(JGet(body.json, "error")[1])
         THEN ErrBravia(JGet(body.json, "error")[1])
         ELSE Err("DeserializeError")
    ELSE Err("InvalidResponse")

\* mutant of ClassifyBody: an `error` value that cannot be read is an invalid
\* response
ClassifyBody_errorUnread(req, body) ==
    IF ~body.valid
    THEN Err("NetworkError")
    ELSE IF JGet(body.json, "result") # None
    THEN IF req.has_result
         THEN Extract(JGet(body.json, "result")[1], req.get)
         ELSE Ok(JNull)
    ELSE IF JGet(body.json, "error") # None
    THEN IF IsBraviaErrorCode(JGet(body.json, "error")[1])
         THEN ErrBravia(JGet(body.json, "error")[1])
         ELSE Err("InvalidResponse")
    ELSE Err("InvalidResponse")

\* lines 249-268: a status-200 body
ClassifyBody(req, body) ==
    IF ~body.valid
    THEN Err("NetworkError")
    ELSE IF JGet(body.json, "result") # None
    THEN IF req.has_result
         THEN Extract(JGet(body.json, "result")[1], req.get)
         ELSE Ok(JNull)
    ELSE IF JGet(body.json, "error") # None
    THEN IF IsBraviaErrorCode(JGet(body.json, "error")[1])
         THEN ErrBravia(JGet(body.json, "error")[1])
         ELSE Err("DeserializeError")
    ELSE Err("InvalidResponse")

\* lines 246-274: the match on the response
make_request_recv(req, resp) ==
    IF ~resp.ok
    THEN Err("NetworkError")
    ELSE IF resp.status = 200
    THEN ClassifyBody(req, resp.body)
    ELSE ErrBadStatus(resp.status)

\* RequestBuilder::make: the result of make_request is unwrapped
make(result) == IF result.kind = "Ok" THEN Ok(result.val) ELSE Panic

----------------------------------------------------------------------------
(* Public call sites.  Each builds the Request it hands to make; its _ret  *)
(* is what it does with the value make returned.                           *)

\* serde_json::from_value::<String>
FromValueString(val) == IF val.t = "str" THEN Ok(val) ELSE Err("DeserializeError")

\* GuideService::get_supported_api_info, services : Option<Vec<String>>
get_supported_api_info(services) ==
    LET params == IF services # None
                  THEN JObj(<<"services">>, <<JArr([i \in DOMAIN services[1] |-> JStr(services[1][i])])>>)
                  ELSE JObj(<<>>, <<>>)
        body == RB_build(RB_params(RB_method(RB_id(RequestBodyBuilder, 5),
                                             "getSupportedApiInfo"), params))
    IN  R_build(R_has_result(RequestBuilder("guide", body)))
\* mutant of get_supported_api_info_ret: an empty list is returned as it is
get_supported_api_info_ret_emptyOk(val) ==
    IF ~IsServiceDataVec(val) THEN Err("DeserializeError")
    ELSE Ok(val)
get_supported_api_info_ret(val) ==
    IF ~IsServiceDataVec(val) THEN Err("DeserializeError")
    ELSE IF val.a = <<>> THEN Err("MissingValue")
    ELSE Ok(val)

\* SystemService::get_current_time, version : Option<&str>
get_current_time(version) ==
    LET body == RB_build(RB_version(RB_method(RB_id(RequestBodyBuilder, 51),
                                              "getCurrentTime"), version))
    IN  R_build(R_has_result(RequestBuilder("system", body)))
\* serde_json::from_value::<usize> and ::<Option<usize>>
IsUsize(j) == j.t = "num" /\ j.n >= 0
IsOptionUsize(j) == j.t = "null" \/ IsUsize(j)
\* serde_json::from_value::<Time> succeeds: the derived Deserialize reads an
\* object (dateTime required, an absent Option field is None, other keys are
\* ignored) or an array of exactly the three fields in their order
IsTime(j) ==
    \/ /\ j.t = "obj"
       /\ HasStr(j, "dateTime")
       /\ \A key \in {"timeZoneOffsetMinute", "dstOffsetMinute"} :
              JGet(j, key) = None \/ IsOptionUsize(JGet(j, key)[1])
    \/ /\ j.t = "arr"
       /\ Len(j.a) = 3
       /\ j.a[1].t = "str"
       /\ IsOptionUsize(j.a[2])
       /\ IsOptionUsize(j.a[3])
\* the struct Time; an Option<usize> field is null (None) or a number
TimeOf(date_time, time_zone_offset_minute, dst_offset_minute) ==
    JObj(<<"date_time", "time_zone_offset_minute", "dst_offset_minute">>,
         <<JStr(date_time), time_zone_offset_minute, dst_offset_minute>>)
\* serde_json::from_value::<Time>, defined when IsTime(j)
ToTime(j) ==
    IF j.t = "arr"
    THEN TimeOf(j.a[1].s, j.a[2], j.a[3])
    ELSE TimeOf(JGet(j, "dateTime")[1].s,
                IF JGet(j, "timeZoneOffsetMinute") = None THEN JNull
                ELSE JGet(j, "timeZoneOffsetMinute")[1],
                IF JGet(j, "dstOffsetMinute") = None THEN JNull
                ELSE JGet(j, "dstOffsetMinute")[1])
\* mutant of get_current_time_ret: the value is read by the shape it has
get_current_time_ret_byShape(version, val) ==
    IF val.t = "str"
    THEN Ok(TimeOf(val.s, JNull, JNull))
    ELSE IF IsTime(val) THEN Ok(ToTime(val)) ELSE Err("DeserializeError")
\* lines 185-195: what get_current_time makes of the value of make
get_current_time_ret(version, val) ==
    IF version = None \/ version = Some("1.0")
    THEN IF val.t = "str"
         THEN Ok(TimeOf(val.s, JNull, JNull))
         ELSE Err("DeserializeError")
    ELSE IF IsTime(val) THEN Ok(ToTime(val)) ELSE Err("DeserializeError")

\* SystemService::get_power_status
get_power_status ==
    LET body == RB_build(RB_method(RB_id(RequestBodyBuilder, 50), "getPowerStatus"))
    IN  R_build(R_get(R_has_result(RequestBuilder("system", body)), Text("status")))
get_power_status_ret(val) == FromValueString(val)

\* SystemService::get_remote_controller_info
get_remote_controller_info ==
    LET body == RB_build(RB_method(RB_id(RequestBodyBuilder, 54),
                                   "getRemoteControllerInfo"))
    IN  R_build(R_get(R_has_result(RequestBuilder("system", body)), Index(1)))
get_remote_controller_info_ret(val) ==
    IF val.t = "arr" /\ \A i \in DOMAIN val.a : HasStr(val.a[i], "name") /\ HasStr(val.a[i], "value")
    THEN Ok(val)
    ELSE Err("DeserializeError")

\* SystemService::request_reboot
request_reboot ==
    LET body == RB_build(RB_method(RB_id(RequestBodyBuilder, 10), "requestReboot"))
    IN  R_build(R_is_protected(RequestBuilder("system", body)))

\* AudioService::set_audio_mute, status : bool
set_audio_mute(status) ==
    LET params == JObj(<<"status">>, <<JBool(status)>>)
        body == RB_build(RB_params(RB_method(RB_id(RequestBodyBuilder, 601),
                                             "setAudioMute"), params))
    IN  R_build(R_has_result(R_is_protected(RequestBuilder("audio", body))))

\* serde_json::Map::new()
MapNew == JObj(<<>>, <<>>)
\* serde_json::Map::insert: the value of an existing key is replaced
JInsert(j, key, v) ==
    IF \E i \in DOMAIN j.k : j.k[i] = key
    THEN JObj(j.k, [i \in DOMAIN j.k |-> IF j.k[i] = key THEN v ELSE j.a[i]])
    ELSE JObj(Append(j.k, key), Append(j.a, v))
\* Value::from(Option<String>): null for None
JOpt(o) == IF o = None THEN JNull ELSE JStr(o[1])

\* AppControlService::get_application_list
get_application_list ==
    LET body == RB_build(RB_method(RB_id(RequestBodyBuilder, 60), "getApplicationList"))
    IN  R_build(R_has_result(R_is_protected(RequestBuilder("appControl", body))))

\* AppControlService::get_application_status_list
get_application_status_list ==
    LET body == RB_build(RB_method(RB_id(RequestBodyBuilder, 55), "getApplicationStatusList"))
    IN  R_build(R_has_result(R_is_protected(RequestBuilder("appControl", body))))

\* AppControlService::get_text_form
get_text_form(enc_key) ==
    LET params == IF enc_key # None
                  THEN JInsert(MapNew, "encKey", JStr(enc_key[1]))
                  ELSE MapNew
        body == RB_build(RB_params(RB_version(RB_method(RB_id(RequestBodyBuilder, 60), "getTextForm"), Some("1.1")), params))
    IN  R_build(R_get(R_has_result(R_is_protected(RequestBuilder("appControl", body))), Text("text")))

\* AppControlService::get_web_app_status
get_web_app_status ==
    LET body == RB_build(RB_method(RB_id(RequestBodyBuilder, 1), "getWebAppStatus"))
    IN  R_build(R_has_result(R_is_protected(RequestBuilder("appControl", body))))

\* AppControlService::set_active_app
set_active_app(uri) ==
    LET params == JInsert(MapNew, "uri", JStr(uri))
        body == RB_build(RB_params(RB_method(RB_id(RequestBodyBuilder, 601), "setActiveApp"), params))
    IN  R_build(R_is_protected(RequestBuilder("appControl", body)))

\* AppControlService::terminate_apps
terminate_apps ==
    LET body == RB_build(RB_method(RB_id(RequestBodyBuilder, 55), "terminateApps"))
    IN  R_build(R_is_protected(RequestBuilder("appControl", body)))

\* AudioService::get_sound_settings
get_sound_settings(target) ==
    LET params == JInsert(MapNew, "target", JOpt(target))
        body == RB_build(RB_params(RB_version(RB_method(RB_id(RequestBodyBuilder, 73), "getSoundSettings"), Some("1.1")), params))
    IN  R_build(R_has_result(RequestBuilder("audio", body)))

\* AudioService::get_speaker_settings
get_speaker_settings(target) ==
    LET params == JInsert(MapNew, "target", JOpt(target))
        body == RB_build(RB_params(RB_method(RB_id(RequestBodyBuilder, 67), "getSpeakerSettings"), params))
    IN  R_build(R_has_result(RequestBuilder("audio", body)))

\* AudioService::get_volume_information
get_volume_information ==
    LET body == RB_build(RB_method(RB_id(RequestBodyBuilder, 33), "getVolumeInformation"))
    IN  R_build(R_has_result(RequestBuilder("audio", body)))

\* AvContentService::get_current_external_input_status
get_current_external_input_status(version) ==
    LET body == RB_build(RB_version(RB_method(RB_id(RequestBodyBuilder, 105), "getCurrentExternalInputsStatus"), version))
    IN  R_build(R_has_result(RequestBuilder("avContent", body)))

\* AvContentService::get_scheme_list
get_scheme_list ==
    LET body == RB_build(RB_method(RB_id(RequestBodyBuilder, 1), "getSchemeList"))
    IN  R_build(R_has_result(RequestBuilder("avContent", body)))

\* AvContentService::get_source_list
get_source_list(scheme) ==
    LET params == JInsert(MapNew, "scheme", JStr(scheme))
        body == RB_build(RB_params(RB_method(RB_id(RequestBodyBuilder, 1), "getSourceList"), params))
    IN  R_build(R_has_result(RequestBuilder("avContent", body)))

\* AvContentService::get_playing_content_info
get_playing_content_info ==
    LET body == RB_build(RB_method(RB_id(RequestBodyBuilder, 103), "getPlayingContentInfo"))
    IN  R_build(R_has_result(R_is_protected(RequestBuilder("avContent", body))))

\* AvContentService::set_play_content
set_play_content(uri) ==
    LET params == JInsert(MapNew, "uri", JStr(uri))
        body == RB_build(RB_params(RB_method(RB_id(RequestBodyBuilder, 101), "setPlayContent"), params))
    IN  R_build(R_is_protected(RequestBuilder("avContent", body)))

\* EncryptionService::get_public_key
get_public_key ==
    LET body == RB_build(RB_method(RB_id(RequestBodyBuilder, 1), "getPublicKey"))
    IN  R_build(R_get(R_has_result(RequestBuilder("encryption", body)), Text("publicKey")))

\* SystemService::get_interface_information
get_interface_information ==
    LET body == RB_build(RB_method(RB_id(RequestBodyBuilder, 33), "getInterfaceInformation"))
    IN  R_build(R_has_result(RequestBuilder("system", body)))

\* SystemService::get_led_indicator_status
get_led_indicator_status ==
    LET body == RB_build(RB_method(RB_id(RequestBodyBuilder, 45), "getLEDIndicatorStatus"))
    IN  R_build(R_has_result(R_is_protected(RequestBuilder("system", body))))

\* SystemService::get_network_settings
get_network_settings(netif) ==
    LET params == IF netif # None
                  THEN JInsert(MapNew, "netif", JStr(netif[1]))
                  ELSE MapNew
        body == RB_build(RB_params(RB_method(RB_id(RequestBodyBuilder, 2), "getNetworkSettings"), params))
    IN  R_build(R_has_result(R_is_protected(RequestBuilder("system", body))))

\* SystemService::get_power_saving_mode
get_power_saving_mode ==
    LET body == RB_build(RB_method(RB_id(RequestBodyBuilder, 51), "getPowerSavingMode"))
    IN  R_build(R_get(R_has_result(RequestBuilder("system", body)), Text("mode")))

\* SystemService::get_remote_device_settings
get_remote_device_settings(target) ==
    LET params == IF target # None
                  THEN JInsert(MapNew, "target", JStr(target[1]))
                  ELSE MapNew
        body == RB_build(RB_params(RB_method(RB_id(RequestBodyBuilder, 44), "getRemoteDeviceSettings"), params))
    IN  R_build(R_has_result(RequestBuilder("system", body)))

\* SystemService::get_system_information
get_system_information ==
    LET body == RB_build(RB_method(RB_id(RequestBodyBuilder, 33), "getSystemInformation"))
    IN  R_build(R_has_result(R_is_protected(RequestBuilder("system", body))))

\* SystemService::get_system_supported_function
get_system_supported_function ==
    LET body == RB_build(RB_method(RB_id(RequestBodyBuilder, 55), "getSystemSupportedFunction"))
    IN  R_build(R_has_result(RequestBuilder("system", body)))

\* SystemService::get_wol_mode
get_wol_mode ==
    LET body == RB_build(RB_method(RB_id(RequestBodyBuilder, 50), "getWolMode"))
    IN  R_build(R_get(R_has_result(R_is_protected(RequestBuilder("system", body))), Text("enabled")))

\* SystemService::set_language
set_language(lang) ==
    LET params == JInsert(MapNew, "language", JStr(lang))
        body == RB_build(RB_params(RB_method(RB_id(RequestBodyBuilder, 55), "setLanguage"), params))
    IN  R_build(R_is_protected(RequestBuilder("system", body)))

\* SystemService::set_power_saving_mode
set_power_saving_mode(mode) ==
    LET params == JInsert(MapNew, "mode", JStr(mode))
        body == RB_build(RB_params(RB_method(RB_id(RequestBodyBuilder, 52), "setPowerSavingMode"), params))
    IN  R_build(R_is_protected(RequestBuilder("system", body)))

\* SystemService::set_power_status
set_power_status(status) ==
    LET params == JInsert(MapNew, "status", JBool(status))
        body == RB_build(RB_params(RB_method(RB_id(RequestBodyBuilder, 55), "setPowerStatus"), params))
    IN  R_build(R_is_protected(RequestBuilder("system", body)))

\* SystemService::set_wol_mode
set_wol_mode(enabled) ==
    LET params == JInsert(MapNew, "enabled", JBool(enabled))
        body == RB_build(RB_params(RB_method(RB_id(RequestBodyBuilder, 55), "setWolMode"), params))
    IN  R_build(R_is_protected(RequestBuilder("system", body)))

\* VideoService::get_picture_quality_settings
get_picture_quality_settings(target) ==
    LET params == IF target # None
                  THEN JInsert(MapNew, "target", JStr(target[1]))
                  ELSE MapNew
        body == RB_build(RB_params(RB_method(RB_id(RequestBodyBuilder, 52), "getPictureQualitySettings"), params))
    IN  R_build(R_has_result(RequestBuilder("video", body)))

\* VideoScreenService::set_scene_settings
set_scene_settings(value) ==
    LET params == JInsert(MapNew, "value", JStr(value))
        body == RB_build(RB_params(RB_method(RB_id(RequestBodyBuilder, 40), "setSceneSetting"), params))
    IN  R_build(R_is_protected(RequestBuilder("videoScreen", body)))

\* mutant of set_text_form: the named fields are sent at every version the
\* caller names
set_text_form_named(text, enc_key, version) ==
    LET params == IF version # None
                  THEN JInsert(IF enc_key # None
                               THEN JInsert(MapNew, "encKey", JStr(enc_key[1]))
                               ELSE MapNew,
                               "text", JStr(text))
                  ELSE JStr(text)
        body == RB_build(RB_params(RB_version(RB_method(RB_id(RequestBodyBuilder, 601), "setTextForm"), version), params))
    IN  R_build(R_is_protected(RequestBuilder("appControl", body)))
\* AppControlService::set_text_form, enc_key : Option<String>,
\* version : Option<&str>
set_text_form(text, enc_key, version) ==
    LET params == IF version # None
                  THEN IF version[1] = "1.1"
                       THEN JInsert(IF enc_key # None
                                    THEN JInsert(MapNew, "encKey", JStr(enc_key[1]))
                                    ELSE MapNew,
                                    "text", JStr(text))
                       ELSE JStr(text)
                  ELSE JStr(text)
        body == RB_build(RB_params(RB_version(RB_method(RB_id(RequestBodyBuilder, 601), "setTextForm"), version), params))
    IN  R_build(R_is_protected(RequestBuilder("appControl", body)))

\* mutant of set_audio_volume: "ui" is sent whenever it is supplied
set_audio_volume_ui(target, volume, ui, version) ==
    LET always == JInsert(JInsert(MapNew, "target", JOpt(target)), "volume", JStr(volume))
        params == IF ui # None THEN JInsert(always, "ui", JOpt(ui)) ELSE always
        body == RB_build(RB_params(RB_version(RB_method(RB_id(RequestBodyBuilder, 98), "setAudioVolume"), version), params))
    IN  R_build(R_is_protected(RequestBuilder("audio", body)))
\* AudioService::set_audio_volume, target, ui : Option<String>,
\* version : Option<&str>
set_audio_volume(target, volume, ui, version) ==
    LET always == JInsert(JInsert(MapNew, "target", JOpt(target)), "volume", JStr(volume))
        params == IF version # None
                  THEN IF version[1] = "1.2" /\ ui # None
                       THEN JInsert(always, "ui", JOpt(ui))
                       ELSE always
                  ELSE always
        body == RB_build(RB_params(RB_version(RB_method(RB_id(RequestBodyBuilder, 98), "setAudioVolume"), version), params))
    IN  R_build(R_is_protected(RequestBuilder("audio", body)))

\* the derived Serialize of SoundSettings
SoundSettingsJ(st) == JObj(<<"target", "value">>, <<JStr(st.target), JStr(st.value)>>)
\* AudioService::set_sound_settings, settings : Vec<SoundSettings>
set_sound_settings(settings) ==
    LET params == JInsert(MapNew, "settings",
                          JArr([i \in DOMAIN settings |-> SoundSettingsJ(settings[i])]))
        body == RB_build(RB_params(RB_version(RB_method(RB_id(RequestBodyBuilder, 5), "setSoundSettings"), Some("1.1")), params))
    IN  R_build(R_is_protected(RequestBuilder("audio", body)))

\* the derived Serialize of SpeakerSettings
SpeakerSettingsJ(st) == JObj(<<"target", "value">>, <<JStr(st.target), JStr(st.value)>>)
\* AudioService::set_speaker_settings, settings : Vec<SpeakerSettings>
set_speaker_settings(settings) ==
    LET params == JInsert(MapNew, "settings",
                          JArr([i \in DOMAIN settings |-> SpeakerSettingsJ(settings[i])]))
        body == RB_build(RB_params(RB_method(RB_id(RequestBodyBuilder, 62), "setSpeakerSettings"), params))
    IN  R_build(R_is_protected(RequestBuilder("audio", body)))

\* AvContentService::get_content_count, content_type, target : Option<String>,
\* version : Option<&str>
get_content_count(source, content_type, target, version) ==
    LET with_source == JInsert(MapNew, "source", JStr(source))
        with_type == IF content_type # None
                     THEN JInsert(with_source, "type", JStr(content_type[1]))
                     ELSE with_source
        params == IF version # None
                  THEN IF version[1] = "1.1"
                       THEN IF target # None
                            THEN JInsert(with_type, "target", JStr(target[1]))
                            ELSE with_type
                       ELSE with_type
                  ELSE with_type
        body == RB_build(RB_params(RB_version(RB_method(RB_id(RequestBodyBuilder, 11), "getContentCount"), version), params))
    IN  R_build(R_get(R_has_result(R_is_protected(RequestBuilder("avContent", body))), Text("count")))

\* AvContentService::get_content_list, uri : Option<String>,
\* st_idx, cnt : Option<u32>
get_content_list(uri, st_idx, cnt) ==
    LET with_uri == IF uri # None THEN JInsert(MapNew, "uri", JStr(uri[1])) ELSE MapNew
        with_st_idx == IF st_idx # None
                       THEN JInsert(with_uri, "stIdx", JNum(st_idx[1]))
                       ELSE with_uri
        params == IF cnt # None THEN JInsert(with_st_idx, "cnt", JNum(cnt[1])) ELSE with_st_idx
        body == RB_build(RB_params(RB_version(RB_method(RB_id(RequestBodyBuilder, 88), "getContentList"), Some("1.5")), params))
    IN  R_build(R_has_result(R_is_protected(RequestBuilder("avContent", body))))

\* the derived Serialize of LEDIndicatorStatus, status : Option<String>
LEDIndicatorStatusJ(led_status) ==
    JObj(<<"mode", "status">>, <<JStr(led_status.mode), JOpt(led_status.status)>>)
\* SystemService::set_led_indicator_status
set_led_indicator_status(led_status) ==
    LET params == LEDIndicatorStatusJ(led_status)
        body == RB_build(RB_params(RB_version(RB_method(RB_id(RequestBodyBuilder, 53), "setLEDIndicatorStatus"), Some("1.1")), params))
    IN  R_build(R_is_protected(RequestBuilder("system", body)))

\* the derived Serialize of PictureQualitySettingsRequest,
\* target, value : Option<String>
PictureQualitySettingsRequestJ(st) ==
    JObj(<<"target", "value">>, <<JOpt(st.target), JOpt(st.value)>>)
\* VideoService::set_picture_quality_settings,
\* settings : Vec<PictureQualitySettingsRequest>
set_picture_quality_settings(settings) ==
    LET params == JInsert(MapNew, "settings",
                          JArr([i \in DOMAIN settings |-> PictureQualitySettingsRequestJ(settings[i])]))
        body == RB_build(RB_params(RB_method(RB_id(RequestBodyBuilder, 12), "setPictureQualitySettings"), params))
    IN  R_build(R_is_protected(RequestBuilder("video", body)))

\* serde_json::from_value::<bool>
FromValueBool(val) == IF val.t = "bool" THEN Ok(val) ELSE Err("DeserializeError")
\* serde_json::from_value::<usize>
FromValueUsize(val) == IF val.t = "num" THEN Ok(val) ELSE Err("DeserializeError")
\* serde_json::from_value::<T> for the structured return types (Vec<Application>,
\* WebAppStatus, ...): the conversion of these values is not modelled; what is
\* recorded is the value that make returned and from_value is given
from_value_input(val) == [kind |-> "Value", err |-> "", status |-> 0, val |-> val]

\* the operations that return (): the value is dropped
unit_ret(val) == Ok(JNull)

\* an invocation of a public operation with its arguments
Invocation(op, version, services, status) ==
    [op |-> op, version |-> version, services |-> services, status |-> status,
     text |-> "", opt |-> None, settings |-> <<>>]
\* an invocation with a String argument (text), an Option<String> argument
\* (opt) and a Vec of settings
Call(op, version, text, opt, status, settings) ==
    [Invocation(op, version, None, status) EXCEPT
        !.text = text, !.opt = opt, !.settings = settings]

\* the Request the invoked operation builds
RequestOf(c) ==
    CASE c.op = "get_supported_api_info" -> get_supported_api_info(c.services)
      [] c.op = "get_current_time" -> get_current_time(c.version)
      [] c.op = "get_power_status" -> get_power_status
      [] c.op = "get_remote_controller_info" -> get_remote_controller_info
      [] c.op = "request_reboot" -> request_reboot
      [] c.op = "set_audio_mute" -> set_audio_mute(c.status)
      [] c.op = "get_application_list" -> get_application_list
      [] c.op = "get_application_status_list" -> get_application_status_list
      [] c.op = "get_text_form" -> get_text_form(c.opt)
      [] c.op = "get_web_app_status" -> get_web_app_status
      [] c.op = "set_active_app" -> set_active_app(c.text)
      [] c.op = "terminate_apps" -> terminate_apps
      [] c.op = "get_sound_settings" -> get_sound_settings(c.opt)
      [] c.op = "get_speaker_settings" -> get_speaker_settings(c.opt)
      [] c.op = "get_volume_information" -> get_volume_information
      [] c.op = "get_current_external_input_status" -> get_current_external_input_status(c.version)
      [] c.op = "get_scheme_list" -> get_scheme_list
      [] c.op = "get_source_list" -> get_source_list(c.text)
      [] c.op = "get_playing_content_info" -> get_playing_content_info
      [] c.op = "set_play_content" -> set_play_content(c.text)
      [] c.op = "get_public_key" -> get_public_key
      [] c.op = "get_interface_information" -> get_interface_information
      [] c.op = "get_led_indicator_status" -> get_led_indicator_status
      [] c.op = "get_network_settings" -> get_network_settings(c.opt)
      [] c.op = "get_power_saving_mode" -> get_power_saving_mode
      [] c.op = "get_remote_device_settings" -> get_remote_device_settings(c.opt)
      [] c.op = "get_system_information" -> get_system_information
      [] c.op = "get_system_supported_function" -> get_system_supported_function
      [] c.op = "get_wol_mode" -> get_wol_mode
      [] c.op = "set_language" -> set_language(c.text)
      [] c.op = "set_power_saving_mode" -> set_power_saving_mode(c.text)
      [] c.op = "set_power_status" -> set_power_status(c.status)
      [] c.op = "set_wol_mode" -> set_wol_mode(c.status)
      [] c.op = "get_picture_quality_settings" -> get_picture_quality_settings(c.opt)
      [] c.op = "set_scene_settings" -> set_scene_settings(c.text)
      [] c.op = "set_text_form" -> set_text_form(c.text, c.opt, c.version)
      [] c.op = "set_audio_volume" -> set_audio_volume(None, c.text, c.opt, c.version)
      [] c.op = "set_sound_settings" -> set_sound_settings(c.settings)
      [] c.op = "set_speaker_settings" -> set_speaker_settings(c.settings)
      [] c.op = "get_content_count" -> get_content_count(c.text, None, c.opt, c.version)
      [] c.op = "get_content_list" -> get_content_list(c.opt, None, None)
      [] c.op = "set_led_indicator_status" ->
             set_led_indicator_status([mode |-> c.text, status |-> c.opt])
      [] c.op = "set_picture_quality_settings" ->
             set_picture_quality_settings(
                 [i \in DOMAIN c.settings |->
                     [target |-> Some(c.settings[i].target),
                      value |-> Some(c.settings[i].value)]])

\* the operations that return (), besides request_reboot and set_audio_mute
UnitOperations ==
    {"set_active_app", "terminate_apps", "set_play_content",
     "set_language", "set_power_saving_mode", "set_power_status",
     "set_wol_mode", "set_scene_settings", "set_text_form",
     "set_audio_volume", "set_sound_settings", "set_speaker_settings",
     "set_led_indicator_status", "set_picture_quality_settings"}
\* the operations that return a String taken from a field of the result
StringOperations ==
    {"get_text_form", "get_public_key", "get_power_saving_mode"}
\* the operations that return a structured value
StructuredOperations ==
    {"get_application_list", "get_application_status_list",
     "get_web_app_status", "get_sound_settings", "get_speaker_settings",
     "get_volume_information", "get_current_external_input_status",
     "get_scheme_list", "get_source_list", "get_playing_content_info",
     "get_interface_information", "get_led_indicator_status",
     "get_network_settings", "get_remote_device_settings",
     "get_system_information", "get_system_supported_function",
     "get_picture_quality_settings", "get_content_list"}

\* `.make(self.0).await?` followed by the operation's own conversion: what
\* the caller of the public operation gets for the result of make_request
PublicReturn(c, result) ==
    LET made == make(result)
    IN  IF made.kind # "Ok" THEN made
        ELSE CASE c.op = "get_supported_api_info" -> get_supported_api_info_ret(made.val)
               [] c.op = "get_current_time" -> get_current_time_ret(c.version, made.val)
               [] c.op = "get_power_status" -> get_power_status_ret(made.val)
               [] c.op = "get_remote_controller_info" -> get_remote_controller_info_ret(made.val)
               [] c.op = "request_reboot" -> unit_ret(made.val)
               [] c.op = "set_audio_mute" -> unit_ret(made.val)
               [] c.op \in UnitOperations -> unit_ret(made.val)
               [] c.op \in StringOperations -> FromValueString(made.val)
               [] c.op = "get_wol_mode" -> FromValueBool(made.val)
               [] c.op = "get_content_count" -> FromValueUsize(made.val)
               [] c.op \in StructuredOperations -> from_value_input(made.val)

----------------------------------------------------------------------------
(* Inputs: the invocations a caller makes and the answers a device gives.  *)

Addresses == {"http://tv"}
\* auth : Option<&str>
Credentials == {None, Some(""), Some("psk")}

Invocations ==
    {Invocation("get_supported_api_info", None, sv, FALSE) :
        sv \in {None, Some(<<>>), Some(<<"system">>)}}
    \cup {Invocation("get_current_time", v, None, FALSE) : v \in {None, Some("1.0"), Some("1.1")}}
    \cup {Invocation("get_power_status", None, None, FALSE),
          Invocation("get_remote_controller_info", None, None, FALSE),
          Invocation("request_reboot", None, None, FALSE),
          Invocation("set_audio_mute", None, None, TRUE)}

\* what a device lists in its discovery answer
VersionsJ(v) == JObj(<<"version", "authLevel">>, <<JStr(v), JStr("none")>>)
ApiJ(name, versions) ==
    JObj(<<"name", "versions">>, <<JStr(name), JArr([i \in DOMAIN versions |-> VersionsJ(versions[i])])>>)
ServiceJ(service, apis) ==
    JObj(<<"apis", "service", "protocols">>, <<JArr(apis), JStr(service), JArr(<<>>)>>)

DeviceServices ==
    { ServiceJ("system", << ApiJ("getCurrentTime", <<"1.0", "1.1">>),
                            ApiJ("getPowerStatus", <<"1.0">>),
                            ApiJ("getRemoteControllerInfo", <<"1.0">>),
                            ApiJ("requestReboot", <<"1.0">>) >>),
      \* the same API listed twice
      ServiceJ("system", << ApiJ("getCurrentTime", <<"1.1">>),
                            ApiJ("getCurrentTime", <<"1.0">>),
                            ApiJ("requestReboot", <<"1.0">>) >>),
      ServiceJ("audio", << ApiJ("setAudioMute", <<"1.0">>) >>) }

\* the elements of an ordinary `result` array
Elems == {JStr("a"), JObj(<<"status">>, <<JStr("standby")>>)}
OrdinaryResults == {JArr(x) : x \in SeqsUpTo(Elems, MaxResultLen)} \cup {JStr("a")}
DiscoveryResults == {JArr(<<JArr(p)>>) : p \in SeqsUpTo(DeviceServices, MaxServices)}
DeviceErrors == {JObj(<<"code", "message">>, <<JNum(40005), JStr("Display Is Turned off")>>),
                 JStr("denied")}

Bodies ==
    {NotJson, JsonBody(JArr(<<>>))}
    \cup {EnvelopeBody(r, e) : r \in {None} \cup {Some(x) : x \in OrdinaryResults},
                               e \in {None} \cup {Some(x) : x \in DeviceErrors}}
    \cup {EnvelopeBody(Some(r), None) : r \in DiscoveryResults}

Statuses == {200, 201, 404}
Responses == {TransportError} \cup {HttpResponse(st, b) : st \in Statuses, b \in Bodies}

----------------------------------------------------------------------------
(* The state machine.                                                      *)

NoExchange == [stage |-> "none", input |-> <<>>, req |-> <<>>, http |-> <<>>,
               resp |-> <<>>, result |-> Pending, ret |-> Pending]

\* the tasks that share one client
Tasks == 1..MaxConcurrent

Init ==
    /\ phase = "start"
    /\ base_url = <<>>
    /\ auth = None
    /\ api_support = EmptyMap
    /\ boot = NoExchange
    /\ call = NoExchange
    /\ calls = [task \in Tasks |-> NoExchange]

\* Bravia::new(address, auth) against a device that answers the discovery
\* request with resp
NewFrom(address, credential, resp) ==
    LET c == Invocation("get_supported_api_info", None, None, FALSE)
        req == RequestOf(c)
        url_base == <<address, "/sony/">>
        snd == make_request_send(url_base, credential, EmptyMap, req)
        sent == snd.result.kind = "Pending"
        result == IF sent THEN make_request_recv(req, resp) ELSE snd.result
        ret == PublicReturn(c, result)
    IN  /\ boot' = [stage |-> "done", input |-> <<c>>, req |-> <<req>>,
                    http |-> snd.http, resp |-> IF sent THEN <<resp>> ELSE <<>>,
                    result |-> result, ret |-> ret]
        /\ IF ret.kind = "Ok"
           THEN /\ phase' = "ready"
                /\ base_url' = url_base
                /\ auth' = credential
                /\ api_support' = create_supported_api_cache(ToServiceDataVec(ret.val))
           ELSE /\ phase' = IF ret.kind = "Err" THEN "failed" ELSE "aborted"
                /\ UNCHANGED <<base_url, auth, api_support>>

\* the client is constructed, once
New ==
    /\ phase = "start"
    /\ \E address \in Addresses, credential \in Credentials, resp \in Responses :
        NewFrom(address, credential, resp)
    /\ UNCHANGED <<call, calls>>

\* the exchange of invocation c once the operation has run up to the await of
\* send(), or to its end when it fails before sending
StartExchange(c) ==
    LET req == RequestOf(c)
        snd == make_request_send(base_url, auth, api_support, req)
        sent == snd.result.kind = "Pending"
    IN  [stage |-> IF sent THEN "sent" ELSE "done",
         input |-> <<c>>, req |-> <<req>>, http |-> snd.http,
         resp |-> <<>>, result |-> snd.result,
         ret |-> IF sent THEN Pending ELSE PublicReturn(c, snd.result)]

\* the public operation of invocation c runs on the client up to the await of
\* send(), or to its end when it fails before sending
InvokeOf(c) == call' = StartExchange(c)

\* a public operation is invoked on a client that has no call in progress
Invoke ==
    /\ phase = "ready"
    /\ call.stage = "none"
    /\ \E c \in Invocations : InvokeOf(c)
    /\ UNCHANGED <<phase, base_url, auth, api_support, boot, calls>>

\* mutant of Respond: a successful public get_supported_api_info rebuilds
\* the cache from the list it got
Respond_refresh ==
    /\ call.stage = "sent"
    /\ \E resp \in Responses :
        LET result == make_request_recv(call.req[1], resp)
            ret == PublicReturn(call.input[1], result)
        IN  /\ call' = [call EXCEPT !.stage = "done", !.resp = <<resp>>,
                                    !.result = result, !.ret = ret]
            /\ api_support' =
                   IF call.input[1].op = "get_supported_api_info" /\ ret.kind = "Ok"
                   THEN create_supported_api_cache(ToServiceDataVec(ret.val))
                   ELSE api_support
    /\ UNCHANGED <<phase, base_url, auth, boot, calls>>

\* mutant of Respond: a failed exchange is tried a second time
Respond_retry ==
    /\ call.stage = "sent"
    /\ \E resp \in Responses :
        LET result == make_request_recv(call.req[1], resp)
        IN  call' = [call EXCEPT !.stage = "done", !.resp = <<resp>>,
                                 !.result = result,
                                 !.ret = PublicReturn(call.input[1], result),
                                 !.http = IF result.kind = "Ok" THEN call.http
                                          ELSE call.http \o call.http]
    /\ UNCHANGED <<phase, base_url, auth, api_support, boot, calls>>

\* the device's answer (or the transport's failure) arrives and the operation
\* runs to its end
Respond ==
    /\ call.stage = "sent"
    /\ \E resp \in Responses :
        LET result == make_request_recv(call.req[1], resp)
        IN  call' = [call EXCEPT !.stage = "done", !.resp = <<resp>>,
                                 !.result = result,
                                 !.ret = PublicReturn(call.input[1], result)]
    /\ UNCHANGED <<phase, base_url, auth, api_support, boot, calls>>

\* the caller has taken what the operation returned (or its task has ended
\* in the panic); the client is free for the next invocation
Return ==
    /\ call.stage = "done"
    /\ call' = NoExchange
    /\ UNCHANGED <<phase, base_url, auth, api_support, boot, calls>>

Next == New \/ Invoke \/ Respond \/ Return

Spec == Init /\ [][Next]_vars

----------------------------------------------------------------------------
(* The call sites: every public operation, on a client of a device that    *)
(* lists every API.                                                        *)

\* the `# Authentication Level` section of the documentation of each public
\* operation, service by service
AuthLevel_app_control ==
    [get_application_list |-> "Private",
     get_application_status_list |-> "None", get_text_form |-> "Private",
     get_web_app_status |-> "Private", set_active_app |-> "Generic",
     set_text_form |-> "Generic", terminate_apps |-> "Generic"]
AuthLevel_audio ==
    [get_sound_settings |-> "None", get_speaker_settings |-> "None",
     get_volume_information |-> "None", set_audio_mute |-> "Generic",
     set_audio_volume |-> "Generic", set_sound_settings |-> "Generic",
     set_speaker_settings |-> "Generic"]
AuthLevel_av_content ==
    [get_content_count |-> "Private", get_content_list |-> "Private",
     get_current_external_input_status |-> "None",
     get_scheme_list |-> "None", get_source_list |-> "None",
     get_playing_content_info |-> "Private", set_play_content |-> "Generic"]
AuthLevel_encryption ==
    [get_public_key |-> "None"]
AuthLevel_guide ==
    [get_supported_api_info |-> "None"]
AuthLevel_system ==
    [get_current_time |-> "None", get_interface_information |-> "None",
     get_led_indicator_status |-> "Generic",
     get_network_settings |-> "Generic", get_power_saving_mode |-> "None",
     get_power_status |-> "None", get_remote_controller_info |-> "None",
     get_remote_device_settings |-> "None",
     get_system_information |-> "Private",
     get_system_supported_function |-> "None", get_wol_mode |-> "Generic",
     request_reboot |-> "Generic", set_led_indicator_status |-> "Generic",
     set_language |-> "Generic", set_power_saving_mode |-> "Generic",
     set_power_status |-> "Generic", set_wol_mode |-> "Generic"]
AuthLevel_video ==
    [get_picture_quality_settings |-> "None",
     set_picture_quality_settings |-> "Generic"]
AuthLevel_video_screen ==
    [set_scene_settings |-> "Generic"]
AuthenticationLevel(op) ==
    (AuthLevel_app_control @@ AuthLevel_audio @@ AuthLevel_av_content
        @@ AuthLevel_encryption @@ AuthLevel_guide @@ AuthLevel_system
        @@ AuthLevel_video @@ AuthLevel_video_screen)[op]

\* a device that lists every API the client has an operation for, at the
\* versions the operations ask for
FullDevice ==
    <<
      ServiceJ("appControl",
          << ApiJ("getApplicationList", <<"1.0">>),
             ApiJ("getApplicationStatusList", <<"1.0">>),
             ApiJ("getTextForm", <<"1.1">>),
             ApiJ("getWebAppStatus", <<"1.0">>),
             ApiJ("setActiveApp", <<"1.0">>),
             ApiJ("setTextForm", <<"1.0", "1.1">>),
             ApiJ("terminateApps", <<"1.0">>) >>),
      ServiceJ("audio",
          << ApiJ("getSoundSettings", <<"1.1">>),
             ApiJ("getSpeakerSettings", <<"1.0">>),
             ApiJ("getVolumeInformation", <<"1.0">>),
             ApiJ("setAudioMute", <<"1.0">>),
             ApiJ("setAudioVolume", <<"1.0", "1.2">>),
             ApiJ("setSoundSettings", <<"1.1">>),
             ApiJ("setSpeakerSettings", <<"1.0">>) >>),
      ServiceJ("avContent",
          << ApiJ("getContentCount", <<"1.0", "1.1">>),
             ApiJ("getContentList", <<"1.5">>),
             ApiJ("getCurrentExternalInputsStatus", <<"1.0", "1.1">>),
             ApiJ("getSchemeList", <<"1.0">>),
             ApiJ("getSourceList", <<"1.0">>),
             ApiJ("getPlayingContentInfo", <<"1.0">>),
             ApiJ("setPlayContent", <<"1.0">>) >>),
      ServiceJ("encryption",
          << ApiJ("getPublicKey", <<"1.0">>) >>),
      ServiceJ("guide",
          << ApiJ("getSupportedApiInfo", <<"1.0">>) >>),
      ServiceJ("system",
          << ApiJ("getCurrentTime", <<"1.0", "1.1">>),
             ApiJ("getInterfaceInformation", <<"1.0">>),
             ApiJ("getLEDIndicatorStatus", <<"1.0">>),
             ApiJ("getNetworkSettings", <<"1.0">>),
             ApiJ("getPowerSavingMode", <<"1.0">>),
             ApiJ("getPowerStatus", <<"1.0">>),
             ApiJ("getRemoteControllerInfo", <<"1.0">>),
             ApiJ("getRemoteDeviceSettings", <<"1.0">>),
             ApiJ("getSystemInformation", <<"1.0">>),
             ApiJ("getSystemSupportedFunction", <<"1.0">>),
             ApiJ("getWolMode", <<"1.0">>),
             ApiJ("requestReboot", <<"1.0">>),
             ApiJ("setLEDIndicatorStatus", <<"1.1">>),
             ApiJ("setLanguage", <<"1.0">>),
             ApiJ("setPowerSavingMode", <<"1.0">>),
             ApiJ("setPowerStatus", <<"1.0">>),
             ApiJ("setWolMode", <<"1.0">>) >>),
      ServiceJ("video",
          << ApiJ("getPictureQualitySettings", <<"1.0">>),
             ApiJ("setPictureQualitySettings", <<"1.0">>) >>),
      ServiceJ("videoScreen",
          << ApiJ("setSceneSetting", <<"1.0">>) >>)
    >>

\* the device's answer to the discovery request of Bravia::new
FullDeviceResponse ==
    HttpResponse(200, EnvelopeBody(Some(JArr(<<JArr(FullDevice)>>)), None))

SiteAddresses == {"http://tv", "http://192.168.1.2"}
\* version : Option<&str>
Versions == {None, Some("1.0"), Some("1.1"), Some("1.2")}
\* an Option<String> argument
OptArgs == {None, Some("o")}
\* a Vec of settings
SettingsArgs == {<<>>, <<[target |-> "t", value |-> "v"]>>}

\* the invocations of the public operations, by the arguments they take: none,
\* a String, an Option<String>, a bool, a version, a Vec of settings, and a
\* String with an Option<String> and a version
SiteInvocations ==
    {Call(op, None, "", None, FALSE, <<>>) : op \in
        {"get_application_list", "get_application_status_list",
         "get_web_app_status", "terminate_apps", "get_volume_information",
         "get_scheme_list", "get_playing_content_info", "get_public_key",
         "get_interface_information", "get_led_indicator_status",
         "get_power_saving_mode", "get_system_information",
         "get_system_supported_function", "get_wol_mode", "get_power_status",
         "get_remote_controller_info", "request_reboot"}}
    \cup {Call(op, None, "s", None, FALSE, <<>>) : op \in
        {"set_active_app", "get_source_list", "set_play_content",
         "set_language", "set_power_saving_mode", "set_scene_settings"}}
    \cup {Call(op, None, "", o, FALSE, <<>>) : o \in OptArgs, op \in
        {"get_text_form", "get_sound_settings", "get_speaker_settings",
         "get_network_settings", "get_remote_device_settings",
         "get_picture_quality_settings", "get_content_list"}}
    \cup {Call(op, None, "", None, b, <<>>) : b \in BOOLEAN, op \in
        {"set_power_status", "set_wol_mode", "set_audio_mute"}}
    \cup {Call(op, v, "", None, FALSE, <<>>) : v \in Versions, op \in
        {"get_current_external_input_status", "get_current_time"}}
    \cup {Call(op, None, "", None, FALSE, st) : st \in SettingsArgs, op \in
        {"set_sound_settings", "set_speaker_settings",
         "set_picture_quality_settings"}}
    \cup {Call(op, v, "s", o, FALSE, <<>>) : v \in Versions, o \in OptArgs, op \in
        {"set_text_form", "set_audio_volume", "get_content_count"}}
    \cup {Call("set_led_indicator_status", None, "Demo", o, FALSE, <<>>) : o \in OptArgs}
    \cup {Invocation("get_supported_api_info", None, sv, FALSE) :
              sv \in {None, Some(<<"system">>)}}

\* the client is constructed against the device that lists every API
NewFullDevice ==
    /\ phase = "start"
    /\ \E address \in SiteAddresses, credential \in Credentials :
        NewFrom(address, credential, FullDeviceResponse)
    /\ UNCHANGED <<call, calls>>

\* the answers the device gives to the operations
\* element 0 of the result of getCurrentTime, as devices may answer it
TimeResults ==
    {JObj(<<"dateTime", "timeZoneOffsetMinute", "dstOffsetMinute">>,
          <<JStr("2018-10-03T13:03:59+0100"), JNum(60), JNum(0)>>),
     JObj(<<"dateTime">>, <<JStr("2018-10-03T13:03:59+0100")>>),
     JObj(<<"dateTime", "timeZoneOffsetMinute", "dstOffsetMinute">>,
          <<JStr("2018-10-03T13:03:59-0500"), JNum(0 - 300), JNum(0)>>),
     JArr(<<JStr("2018-10-03T13:03:59+0100"), JNull, JNum(0)>>)}
\* values of the `error` key other than an object {code, message}
ErrorValues ==
    {JArr(<<JNum(12), JStr("No Such Method")>>),
     JArr(<<JNum(12)>>),
     JStr("denied"),
     JObj(<<"code", "message">>, <<JNum(0 - 1), JStr("x")>>),
     JObj(<<"code">>, <<JNum(12)>>)}
SiteResponses ==
    {TransportError,
     HttpResponse(404, NotJson),
     HttpResponse(200, EnvelopeBody(None, Some(JObj(<<"code", "message">>,
                                                    <<JNum(12), JStr("No Such Method")>>)))),
     HttpResponse(200, EnvelopeBody(Some(JArr(<<>>)), None)),
     HttpResponse(200, EnvelopeBody(Some(JArr(<<JStr("a")>>)), None)),
     HttpResponse(200, EnvelopeBody(Some(JArr(<<JObj(<<"status">>, <<JStr("standby")>>)>>)),
                                    None))}
    \cup {HttpResponse(200, EnvelopeBody(Some(JArr(<<t>>)), None)) : t \in TimeResults}
    \cup {HttpResponse(200, EnvelopeBody(None, Some(e))) : e \in ErrorValues}

\* any public operation is invoked on a client that has no call in progress
InvokeSite ==
    /\ phase = "ready"
    /\ call.stage = "none"
    /\ \E c \in SiteInvocations : InvokeOf(c)
    /\ UNCHANGED <<phase, base_url, auth, api_support, boot, calls>>

\* the device's answer (or the transport's failure) arrives and the operation
\* runs to its end
RespondSite ==
    /\ call.stage = "sent"
    /\ \E resp \in SiteResponses :
        LET result == make_request_recv(call.req[1], resp)
        IN  call' = [call EXCEPT !.stage = "done", !.resp = <<resp>>,
                                 !.result = result,
                                 !.ret = PublicReturn(call.input[1], result)]
    /\ UNCHANGED <<phase, base_url, auth, api_support, boot, calls>>

NextSites == NewFullDevice \/ InvokeSite \/ RespondSite \/ Return

SpecSites == Init /\ [][NextSites]_vars

----------------------------------------------------------------------------
(* Concurrent dispatches: tasks that call operations of one client, which  *)
(* they share as &self.  Every make_request owns its reqwest Client, its   *)
(* request and the response of its own connection.                         *)

ConcInvocations ==
    {Invocation("get_power_status", None, None, FALSE),
     Invocation("get_current_time", Some("1.1"), None, FALSE),
     Invocation("request_reboot", None, None, FALSE)}
ConcResponses ==
    {TransportError,
     HttpResponse(404, NotJson),
     HttpResponse(200, EnvelopeBody(Some(JArr(<<JObj(<<"status">>, <<JStr("standby")>>)>>)),
                                    None))}

\* a task invokes a public operation: it runs up to the await of send()
InvokeTask ==
    /\ phase = "ready"
    /\ \E task \in Tasks, c \in ConcInvocations :
        /\ calls[task].stage = "none"
        /\ calls' = [calls EXCEPT ![task] = StartExchange(c)]
    /\ UNCHANGED <<phase, base_url, auth, api_support, boot, call>>

\* mutant of RespondTask: the answer is read with the request of the first
\* task that waits for one
RespondTask_shared ==
    /\ \E task \in Tasks, resp \in ConcResponses :
        /\ calls[task].stage = "sent"
        /\ LET first == CHOOSE t \in Tasks :
                             /\ calls[t].stage = "sent"
                             /\ \A u \in Tasks : calls[u].stage = "sent" => t <= u
               result == make_request_recv(calls[first].req[1], resp)
           IN  calls' = [calls EXCEPT ![task] =
                            [@ EXCEPT !.stage = "done", !.resp = <<resp>>,
                                      !.result = result,
                                      !.ret = PublicReturn(calls[task].input[1], result)]]
    /\ UNCHANGED <<phase, base_url, auth, api_support, boot, call>>

\* the answer to the request of one task arrives on its connection and the
\* task's operation runs to its end
RespondTask ==
    /\ \E task \in Tasks, resp \in ConcResponses :
        /\ calls[task].stage = "sent"
        /\ LET result == make_request_recv(calls[task].req[1], resp)
           IN  calls' = [calls EXCEPT ![task] =
                            [@ EXCEPT !.stage = "done", !.resp = <<resp>>,
                                      !.result = result,
                                      !.ret = PublicReturn(calls[task].input[1], result)]]
    /\ UNCHANGED <<phase, base_url, auth, api_support, boot, call>>

\* a task has taken what its operation returned
ReturnTask ==
    /\ \E task \in Tasks :
        /\ calls[task].stage = "done"
        /\ calls' = [calls EXCEPT ![task] = NoExchange]
    /\ UNCHANGED <<phase, base_url, auth, api_support, boot, call>>

NextConc == NewFullDevice \/ InvokeTask \/ RespondTask \/ ReturnTask

SpecConc == Init /\ [][NextConc]_vars

----------------------------------------------------------------------------
(* Properties.                                                             *)

\* the (service, api, version) triple is in the cache
InCache(cache, service, api, version) ==
    /\ service \in DOMAIN cache
    /\ api \in DOMAIN cache[service]
    /\ version \in {cache[service][api][i] : i \in DOMAIN cache[service][api]}

\* the names the properties range over
ServiceNames == {"guide", "system", "audio"}
ApiNames == {"getSupportedApiInfo", "getCurrentTime", "getPowerStatus",
             "getRemoteControllerInfo", "requestReboot", "setAudioMute"}
VersionNames == {"1.0", "1.1", "1.2"}

\* a dispatch of exchange x has ended in a failure
DispatchFailed(x) == x.stage = "done" /\ x.result.kind # "Ok"

FailureReachesCaller(x) ==
    DispatchFailed(x) =>
        /\ x.result.kind = "Err"
        /\ x.ret.kind = "Err"
        /\ x.ret.err = x.result.err
\* C1: every failure of a dispatch made through a public operation reaches
\* the caller of the operation as an Err of the same kind; no failure path
\* panics and none becomes a success.
C1_FailuresReachCallerAsErr ==
    FailureReachesCaller(boot) /\ FailureReachesCaller(call)

\* C2: a dispatch whose method is not getSupportedApiInfo and whose
\* (endpoint, method, version) is not in the capability cache does not
\* succeed, and no HTTP request is sent for it.
C2_UnsupportedNeverSent ==
    (/\ call.stage # "none"
     /\ call.req[1].body.method # "getSupportedApiInfo"
     /\ ~InCache(api_support, call.req[1].endpoint, call.req[1].body.method,
                 call.req[1].body.version))
    => /\ call.stage = "done"
       /\ call.result.kind # "Ok"
       /\ call.ret.kind # "Ok"
       /\ call.http = <<>>
C2_Witness ==
    /\ call.stage = "done"
    /\ call.req[1].body.method = "getCurrentTime"
    /\ call.req[1].body.version = "1.1"
    /\ "system" \in DOMAIN api_support
    /\ "getCurrentTime" \in DOMAIN api_support["system"]
    /\ api_support["system"]["getCurrentTime"] = <<"1.0">>
    /\ call.result = Err("BraviaApiLevelError")
    /\ call.http = <<>>

\* C3: is_api_supported gives BraviaApiServiceNotFound when the service is no
\* key of the cache, BraviaApiNotFound when the service is a key but the
\* method is not, BraviaApiLevelError when the method is a key but the version
\* is not in its list, and Ok otherwise.
C3_Expected(cache, s, m, v) ==
    CASE s \notin DOMAIN cache -> Err("BraviaApiServiceNotFound")
      [] s \in DOMAIN cache /\ m \notin DOMAIN cache[s] -> Err("BraviaApiNotFound")
      [] s \in DOMAIN cache /\ m \in DOMAIN cache[s] /\ ~InCache(cache, s, m, v)
            -> Err("BraviaApiLevelError")
      [] InCache(cache, s, m, v) -> Ok(JNull)
C3_CapabilityCheckOutcomes ==
    \A s \in ServiceNames, m \in ApiNames, v \in VersionNames :
        is_api_supported(api_support, s, m, v) = C3_Expected(api_support, s, m, v)
C3_Witness ==
    /\ call.stage = "done"
    /\ call.req[1].body.method = "getPowerStatus"
    /\ call.result = Err("BraviaApiNotFound")
    /\ is_api_supported(api_support, "audio", "setAudioMute", "1.0")
           = Err("BraviaApiServiceNotFound")
    /\ is_api_supported(api_support, "system", "getCurrentTime", "1.1")
           = Err("BraviaApiLevelError")
    /\ is_api_supported(api_support, "system", "getCurrentTime", "1.0") = Ok(JNull)

CapabilityErrors ==
    {"BraviaApiServiceNotFound", "BraviaApiNotFound", "BraviaApiLevelError"}

\* the capability check of make_request lets the request of exchange x pass
PassesCapability(cache, req) ==
    \/ req.body.method = "getSupportedApiInfo"
    \/ InCache(cache, req.endpoint, req.body.method, req.body.version)

\* C4 as stated: every protected dispatch on a client without a stored
\* credential fails with BraviaAuthLevelError and sends no HTTP request.
C4_ProtectedAlwaysAuthLevelError ==
    (call.stage # "none" /\ call.req[1].is_protected /\ auth = None)
    => /\ call.result = Err("BraviaAuthLevelError")
       /\ call.http = <<>>

\* C4 amended: a protected dispatch on a client without a stored credential
\* sends no HTTP request and fails: with BraviaAuthLevelError when it passes
\* the capability check, with the capability check's error when it does not.
C4_ProtectedWithoutCredentialNeverSent ==
    (call.stage # "none" /\ call.req[1].is_protected /\ auth = None)
    => /\ call.stage = "done"
       /\ call.http = <<>>
       /\ call.result.kind = "Err"
       /\ IF PassesCapability(api_support, call.req[1])
          THEN call.result = Err("BraviaAuthLevelError")
          ELSE call.result.err \in CapabilityErrors
C4_Witness ==
    /\ call.stage = "done"
    /\ call.req[1].is_protected
    /\ auth = None
    /\ call.req[1].body.method = "requestReboot"
    /\ InCache(api_support, "system", "requestReboot", "1.0")
    /\ call.result = Err("BraviaAuthLevelError")
    /\ call.http = <<>>

\* the discovery exchange of Bravia::new failed: transport failure,
\* non-success status, malformed payload or a list of zero services
DiscoveryFailed ==
    /\ boot.stage = "done"
    /\ \/ ~boot.resp[1].ok
       \/ boot.resp[1].status \notin 200..299
       \/ ~boot.resp[1].body.valid
       \/ JGet(boot.resp[1].body.json, "result") = None
       \/ JGetIndex(JGet(boot.resp[1].body.json, "result")[1], 0) = None
       \/ ~IsServiceDataVec(JGetIndex(JGet(boot.resp[1].body.json, "result")[1], 0)[1])
       \/ JGetIndex(JGet(boot.resp[1].body.json, "result")[1], 0)[1].a = <<>>

\* C5: Bravia::new returns an error and produces no client whenever the
\* discovery call fails (transport failure, non-success status, malformed
\* payload, zero services); no client with a partly filled cache exists.
C5_NewFailsWithErr ==
    /\ DiscoveryFailed => (phase = "failed" /\ boot.ret.kind = "Err")
    /\ phase # "ready" => (api_support = EmptyMap /\ auth = None)

\* C6: once Bravia::new has returned a client, no later operation on it,
\* succeeding or failing, changes its capability cache or its credential.
C6_ClientReadOnlyAfterNew ==
    [][phase = "ready" =>
          (phase' = "ready" /\ api_support' = api_support /\ auth' = auth)]_vars
\* a public get_supported_api_info has returned a list that differs from the
\* one the cache was built from
C6_Witness ==
    /\ phase = "ready"
    /\ call.stage = "done"
    /\ call.input[1].op = "get_supported_api_info"
    /\ call.ret.kind = "Ok"
    /\ create_supported_api_cache(ToServiceDataVec(call.ret.val)) # api_support

\* the service list Bravia::new got from the discovery call
Discovered == ToServiceDataVec(boot.ret.val)

\* some entry for service s lists version v in some entry for API m
Listed(services, s, m, v) ==
    \E i \in DOMAIN services :
        /\ services[i].service = s
        /\ \E j \in DOMAIN services[i].apis :
            /\ services[i].apis[j].name = m
            /\ \E n \in DOMAIN services[i].apis[j].versions :
                   services[i].apis[j].versions[n].version = v

\* the last entry for service s lists version v in its last entry for API m
ListedLast(services, s, m, v) ==
    \E i \in DOMAIN services :
        /\ services[i].service = s
        /\ \A i2 \in DOMAIN services : i2 > i => services[i2].service # s
        /\ \E j \in DOMAIN services[i].apis :
            /\ services[i].apis[j].name = m
            /\ \A j2 \in DOMAIN services[i].apis :
                   j2 > j => services[i].apis[j2].name # m
            /\ \E n \in DOMAIN services[i].apis[j].versions :
                   services[i].apis[j].versions[n].version = v

\* C7 as stated: after a successful Bravia::new the capability check for
\* (s, m, v) succeeds exactly when the discovery response listed version v
\* among the versions of API m of service s.
C7_SupportedIffListed ==
    phase = "ready" =>
        LET services == Discovered
        IN  \A s \in ServiceNames, m \in ApiNames, v \in VersionNames :
                (is_api_supported(api_support, s, m, v).kind = "Ok")
                    <=> Listed(services, s, m, v)

\* C7 amended: after a successful Bravia::new the capability check for
\* (s, m, v) succeeds exactly when v is among the versions of the last entry
\* for API m inside the last entry for service s of the discovery response.
C7_SupportedIffListedLast ==
    phase = "ready" =>
        LET services == Discovered
        IN  \A s \in ServiceNames, m \in ApiNames, v \in VersionNames :
                (is_api_supported(api_support, s, m, v).kind = "Ok")
                    <=> ListedLast(services, s, m, v)
C7_Witness ==
    /\ phase = "ready"
    /\ Listed(Discovered, "system", "getPowerStatus", "1.0")
    /\ ~ListedLast(Discovered, "system", "getPowerStatus", "1.0")
    /\ is_api_supported(api_support, "system", "getPowerStatus", "1.0").kind = "Err"
    /\ ListedLast(Discovered, "system", "getCurrentTime", "1.0")
    /\ is_api_supported(api_support, "system", "getCurrentTime", "1.0").kind = "Ok"

\* exchange x got a status-200 response with a JSON body
Json200(x) ==
    /\ x.stage = "done"
    /\ x.resp # <<>>
    /\ x.resp[1].ok
    /\ x.resp[1].status = 200
    /\ x.resp[1].body.valid
HasKey(x, key) == JGet(x.resp[1].body.json, key) # None

ErrorKeyAlwaysBraviaError(x) ==
    Json200(x) =>
        /\ HasKey(x, "error") => (x.result.kind = "Err" /\ x.result.err = "BraviaError")
        /\ (~HasKey(x, "result") /\ ~HasKey(x, "error")) => x.result = Err("InvalidResponse")
\* C8 as stated, for the success status 200: a body with an `error` key makes
\* the dispatch fail with BraviaError whether or not it has a `result` key; a
\* body with neither key makes it fail with InvalidResponse.
C8_ErrorKeyAlwaysBraviaError ==
    ErrorKeyAlwaysBraviaError(boot) /\ ErrorKeyAlwaysBraviaError(call)

ResultKeyFirst(x) ==
    Json200(x) =>
        /\ HasKey(x, "result") =>
               \/ x.result.kind = "Ok"
               \/ x.result = Err("MissingValue")
               \/ x.result = Panic
        /\ (~HasKey(x, "result") /\ HasKey(x, "error")) =>
               x.result = IF IsBraviaErrorCode(JGet(x.resp[1].body.json, "error")[1])
                          THEN ErrBravia(JGet(x.resp[1].body.json, "error")[1])
                          ELSE Err("DeserializeError")
        /\ (~HasKey(x, "result") /\ ~HasKey(x, "error")) => x.result = Err("InvalidResponse")
\* C8 amended: a status-200 JSON body is classified by its keys, `result`
\* first: with a `result` key it is handled as a result (never BraviaError)
\* whether or not `error` is present; with `error` and no `result` the dispatch
\* fails with BraviaError when the value reads as {code, message} and with
\* DeserializeError when it does not; with neither key, InvalidResponse.
C8_ResultKeyFirst ==
    ResultKeyFirst(boot) /\ ResultKeyFirst(call)
C8_Witness ==
    /\ Json200(call)
    /\ HasKey(call, "result")
    /\ HasKey(call, "error")
    /\ IsBraviaErrorCode(JGet(call.resp[1].body.json, "error")[1])
    /\ call.result.kind = "Ok"

StatusClass(x) ==
    (x.stage = "done" /\ x.resp # <<>> /\ x.resp[1].ok) =>
        IF x.resp[1].status \in 200..299
        THEN x.result.err # "BadStatus"
        ELSE x.result = ErrBadStatus(x.resp[1].status)
\* C9: a response with a status in the 2xx range has its body parsed for
\* `result`/`error`; a response with any other status makes the dispatch fail
\* with BadStatus carrying that status.
C9_HandledByStatusClass ==
    StatusClass(boot) /\ StatusClass(call)

\* the capability check and the credential check of make_request both pass
ChecksPass(cache, credential, req) ==
    /\ PassesCapability(cache, req)
    /\ req.is_protected => credential # None

OneRoundTrip(x, cache) ==
    x.stage # "none" =>
        /\ Len(x.http) = IF ChecksPass(cache, auth, x.req[1]) THEN 1 ELSE 0
        /\ (x.stage = "done" /\ x.http # <<>>) =>
               x.result = make_request_recv(x.req[1], x.resp[1])
\* C10: a dispatch sends at most one HTTP request, exactly one when the
\* capability check and the credential check pass, none otherwise, and no
\* second one after a failure; its outcome is that of its own request and
\* response, whatever the earlier dispatches gave.
C10_OneRoundTrip ==
    OneRoundTrip(boot, EmptyMap) /\ OneRoundTrip(call, api_support)
C10_Witness ==
    /\ boot.result.kind = "Ok"
    /\ call.stage = "done"
    /\ call.resp = <<TransportError>>
    /\ call.result = Err("NetworkError")
    /\ Len(call.http) = 1

\* the exchange got a status-200 JSON body with a `result` key for a request
\* that expects a result
ResultExpected(x) ==
    /\ Json200(x)
    /\ HasKey(x, "result")
    /\ x.req[1].has_result
\* the value under the `result` key of the response
ResultOf(x) == JGet(x.resp[1].body.json, "result")[1]

IndexPolicy(x) ==
    (ResultExpected(x) /\ x.req[1].get.tag = "Index" /\ ResultOf(x).t = "arr") =>
        LET elems == ResultOf(x).a
            i == x.req[1].get.idx
        IN  x.result = IF Len(elems) > i THEN Ok(elems[i + 1]) ELSE Err("MissingValue")
\* C11: with a result expected and an index policy i, a response whose
\* `result` array has more than i elements yields exactly element i, and one
\* whose `result` array has i or fewer elements (the empty array with i = 0
\* included) makes the dispatch fail with MissingValue.
C11_IndexPolicy ==
    IndexPolicy(boot) /\ IndexPolicy(call)
C11_Witness ==
    /\ ResultExpected(call)
    /\ call.req[1].get = Index(1)
    /\ Len(ResultOf(call).a) = 2
    /\ call.result = Ok(ResultOf(call).a[2])
    /\ ResultExpected(boot)
    /\ boot.req[1].get = Index(0)

NamedPolicy(x) ==
    (ResultExpected(x) /\ x.req[1].get.tag = "Text" /\ ResultOf(x).t = "arr") =>
        LET elems == ResultOf(x).a
            f == x.req[1].get.name
        IN  x.result = IF elems = <<>> THEN Err("MissingValue")
                       ELSE IF JGet(elems[1], f) = None THEN Err("MissingValue")
                       ELSE Ok(JGet(elems[1], f)[1])
\* C12: with a result expected and a named policy f, the dispatch returns the
\* value of field f of the first element of `result`, and fails with
\* MissingValue both when `result` is the empty array and when the first
\* element has no field f.
C12_NamedPolicy ==
    NamedPolicy(boot) /\ NamedPolicy(call)

\* the exchange was answered with a JSON body that has a `result` key, for a
\* request that expects no result
NoResultExpected(x) ==
    /\ x.stage = "done"
    /\ x.resp # <<>>
    /\ x.resp[1].ok
    /\ x.resp[1].body.valid
    /\ HasKey(x, "result")
    /\ ~x.req[1].has_result
\* the part of C13 that does not depend on the status classes of C9: at
\* status 200 the dispatch yields a null success whatever `result` is
NoResultNullAt200 ==
    (NoResultExpected(call) /\ call.resp[1].status = 200) => call.result = Ok(JNull)
\* C13: for a dispatch that declares no result expected, a success-status
\* (2xx) response containing a `result` key yields a null success whatever
\* the value of `result` is, and no extraction is attempted.
C13_NoResultNullSuccess ==
    (NoResultExpected(call) /\ call.resp[1].status \in 200..299) => call.result = Ok(JNull)

\* the sixteen operations whose return type is Result<()>
UnitReturning == UnitOperations \cup {"request_reboot", "set_audio_mute"}
\* the answer with status 200 and body {"result": []}
EmptyResultResponse == HttpResponse(200, EnvelopeBody(Some(JArr(<<>>)), None))
\* C14: every public operation whose return type is unit declares no result
\* expected, so it succeeds on a supported, authenticated call answered with
\* status 200 and body {"result": []} and never fails with MissingValue.
C14_UnitOperationsSucceed ==
    (call.stage # "none" /\ call.input[1].op \in UnitReturning) =>
        /\ ~call.req[1].has_result
        /\ call.result # Err("MissingValue")
        /\ (call.stage = "done" /\ call.resp = <<EmptyResultResponse>>) =>
               (call.result = Ok(JNull) /\ call.ret = Ok(JNull))

\* C15: for every public operation, the protected flag of its dispatch equals
\* whether its documented Authentication Level is other than None: on a client
\* built without a credential, a dispatch that passes the capability check
\* fails with BraviaAuthLevelError exactly when the operation is documented as
\* Generic or Private.
C15_ProtectedIffDocumentedLevel ==
    call.stage # "none" =>
        LET documented == AuthenticationLevel(call.input[1].op) # "None"
        IN  /\ call.req[1].is_protected = documented
            /\ (auth = None /\ PassesCapability(api_support, call.req[1])) =>
                   ((call.result = Err("BraviaAuthLevelError")) = documented)

\* C16: a protected dispatch requires a non-empty stored credential: on a
\* client constructed with the empty string as credential, a protected
\* dispatch fails with BraviaAuthLevelError and sends no request, the same as
\* when no credential is stored.
C16_EmptyCredentialRejected ==
    (auth = Some("") /\ call.stage # "none" /\ call.req[1].is_protected
        /\ PassesCapability(api_support, call.req[1])) =>
            /\ call.result = Err("BraviaAuthLevelError")
            /\ call.http = <<>>

\* the operations whose call site calls .params(..)
ParamsSites ==
    {"get_text_form", "set_active_app", "set_text_form",
     "get_sound_settings", "get_speaker_settings", "set_audio_mute",
     "set_audio_volume", "set_sound_settings", "set_speaker_settings",
     "get_content_count", "get_content_list", "get_source_list",
     "set_play_content", "get_supported_api_info", "get_network_settings",
     "get_remote_device_settings", "set_led_indicator_status",
     "set_language", "set_power_saving_mode", "set_power_status",
     "set_wol_mode", "get_picture_quality_settings",
     "set_picture_quality_settings", "set_scene_settings"}
\* the operations whose call site calls .version(version) with the version
\* the caller passed
CallerVersionSites ==
    {"set_text_form", "set_audio_volume", "get_content_count",
     "get_current_external_input_status", "get_current_time"}
\* the operations whose call site calls .version(Some(..)) with a fixed version
FixedVersionSites ==
    {"get_text_form", "get_sound_settings", "set_sound_settings",
     "get_content_list", "set_led_indicator_status"}

\* the envelope of the exchange follows the two rules of RequestBodyBuilder
EnvelopeDefaults(x) ==
    x.stage # "none" =>
        LET op == x.input[1].op
            body == x.req[1].body
        IN  /\ Len(body.params) = IF op \in ParamsSites THEN 1 ELSE 0
            /\ (op \in CallerVersionSites /\ x.input[1].version = None) =>
                   body.version = "1.0"
            /\ (op \notin CallerVersionSites /\ op \notin FixedVersionSites) =>
                   body.version = "1.0"
\* C17: every request envelope built by RequestBodyBuilder has a `params`
\* array of exactly one element when the call site supplied a parameter value
\* (of any JSON type, an empty object included) and of zero elements when it
\* supplied none, and has version "1.0" both when the version setter was given
\* None and when it was never called.
C17_EnvelopeDefaults ==
    EnvelopeDefaults(boot) /\ EnvelopeDefaults(call)
C17_Witness ==
    /\ boot.stage = "done"
    /\ boot.req[1].body.params = <<JObj(<<>>, <<>>)>>
    /\ boot.req[1].body.version = "1.0"
    /\ call.stage # "none"
    /\ call.input[1].op = "set_text_form"
    /\ call.input[1].version = None
    /\ call.req[1].body.params = <<JStr("s")>>
    /\ call.req[1].body.version = "1.0"

\* the keys of a JSON object
KeysOf(j) == {j.k[i] : i \in DOMAIN j.k}
\* an invocation of the operation op is in progress or done
Invoked(op) == call.stage # "none" /\ call.input[1].op = op

\* C18: for every (text, enc_key, version) passed to set_text_form, the
\* envelope's version and its params shape agree: params is the object
\* {"text": text}, plus "encKey" when supplied, exactly when the envelope
\* version is "1.1", and is the bare string text for every other envelope
\* version, the default "1.0" used when version is None included.
C18_TextFormShape ==
    Invoked("set_text_form") =>
        LET text == call.input[1].text
            enc_key == call.input[1].opt
            version == call.input[1].version
            body == call.req[1].body
            params == body.params[1]
        IN  /\ Len(body.params) = 1
            /\ body.version = IF version = None THEN "1.0" ELSE version[1]
            /\ IF body.version = "1.1"
               THEN /\ params.t = "obj"
                    /\ KeysOf(params) = {"text"} \cup (IF enc_key = None THEN {} ELSE {"encKey"})
                    /\ JGet(params, "text") = Some(JStr(text))
                    /\ enc_key # None => JGet(params, "encKey") = Some(JStr(enc_key[1]))
               ELSE params = JStr(text)
C18_Witness ==
    /\ Invoked("set_text_form")
    /\ call.input[1].version = Some("1.1")
    /\ call.input[1].opt = Some("o")
    /\ call.req[1].body.version = "1.1"
    /\ KeysOf(call.req[1].body.params[1]) = {"text", "encKey"}
    /\ call.stage = "done"
    /\ call.result = Ok(JNull)

\* the operation op sends the optional parameter key only at the version gate
VersionGated(op, key, gate) ==
    Invoked(op) =>
        LET supplied == call.input[1].opt
            version == call.input[1].version
            body == call.req[1].body
            params == body.params[1]
        IN  /\ body.version = IF version = None THEN "1.0" ELSE version[1]
            /\ (key \in KeysOf(params)) = (version = Some(gate) /\ supplied # None)
            /\ key \in KeysOf(params) => JGet(params, key) = Some(JStr(supplied[1]))
\* C19: version-gated optional parameters are sent only at their version:
\* set_audio_volume puts "ui" in params exactly when version is Some("1.2") and
\* ui is supplied, and get_content_count puts "target" in params exactly when
\* version is Some("1.1") and target is supplied; at every other version the
\* supplied value is left out and the envelope carries the caller's version
\* (or "1.0" for None).
C19_VersionGatedParams ==
    /\ VersionGated("set_audio_volume", "ui", "1.2")
    /\ VersionGated("get_content_count", "target", "1.1")
C19_Witness ==
    /\ Invoked("set_audio_volume")
    /\ call.input[1].version = Some("1.0")
    /\ call.input[1].opt = Some("o")
    /\ call.req[1].body.version = "1.0"
    /\ KeysOf(call.req[1].body.params[1]) = {"target", "volume"}
    /\ call.stage = "done"
    /\ call.result = Ok(JNull)

\* the request of exchange x, sent by a client built for some address with
\* the credential credential, has the shape make_request gives it
SentShape(x, credential) ==
    x.http # <<>> =>
        LET h == x.http[1]
            req == x.req[1]
        IN  /\ h.verb = "POST"
            /\ \E address \in SiteAddresses : h.url = <<address, "/sony/", req.endpoint>>
            /\ h.url[1] = boot.http[1].url[1]
            /\ h.content_type = "application/json"
            /\ req.is_protected => h.psk = credential[1]
            /\ h.body.t = "obj"
            /\ KeysOf(h.body) = {"id", "method", "version", "params"}
            /\ Len(h.body.k) = 4
            /\ JGet(h.body, "id") = Some(JNum(req.body.id))
            /\ JGet(h.body, "method") = Some(JStr(req.body.method))
            /\ JGet(h.body, "version") = Some(JStr(req.body.version))
            /\ JGet(h.body, "params") = Some(JArr(req.body.params))
\* C20: every request that is sent is an HTTP POST to the address given at
\* construction followed by "/sony/" and the endpoint name that was used for
\* the capability check, with a Content-Type: application/json header and an
\* X-Auth-PSK header that carries the stored credential for a protected
\* dispatch, and a body holding exactly the fields id, method, version and
\* params.
C20_SentRequestShape ==
    /\ SentShape(boot, None)
    /\ SentShape(call, auth)
    /\ call.http # <<>> =>
           is_api_supported(api_support, call.http[1].url[3], call.req[1].body.method,
                            call.req[1].body.version) = Ok(JNull)
               \/ call.req[1].body.method = "getSupportedApiInfo"
C20_Witness ==
    /\ call.stage = "sent"
    /\ call.req[1].is_protected
    /\ auth = Some("psk")
    /\ call.http[1].psk = "psk"
    /\ call.http[1].url = <<"http://192.168.1.2", "/sony/", "videoScreen">>
    /\ call.http[1].verb = "POST"

\* the exchange of a task is the one its invocation has when it runs alone on
\* the client: its own request, and the outcome of its own response
RunsAlone(x) ==
    x.stage # "none" =>
        LET c == x.input[1]
            req == RequestOf(c)
            snd == make_request_send(base_url, auth, api_support, req)
        IN  /\ x.req = <<req>>
            /\ x.http = snd.http
            /\ IF snd.result.kind = "Pending"
               THEN x.stage = "done" =>
                        /\ x.result = make_request_recv(req, x.resp[1])
                        /\ x.ret = PublicReturn(c, x.result)
               ELSE /\ x.stage = "done"
                    /\ x.result = snd.result
                    /\ x.ret = PublicReturn(c, snd.result)
\* a step changes the exchange of at most one task
OneTaskPerStep ==
    \A task \in Tasks :
        calls'[task] # calls[task] =>
            \A other \in Tasks \ {task} : calls'[other] = calls[other]
\* C21: any number of dispatches running concurrently on one client do not
\* interfere: in every interleaving each dispatch's outcome is the one it
\* would have had alone for its own request and its own response, and
\* responses are never attributed to another dispatch.
C21_ConcurrentDispatchesIndependent ==
    /\ [](\A task \in Tasks : RunsAlone(calls[task]))
    /\ [][OneTaskPerStep]_vars
C21_Witness ==
    /\ calls[1].stage = "sent"
    /\ calls[1].input[1].op = "request_reboot"
    /\ calls[2].stage = "done"
    /\ calls[2].input[1].op = "get_power_status"
    /\ calls[2].result = Ok(JStr("standby"))

\* exchange x is a dispatch of the discovery method that is sent and does not
\* fail with an error of the capability check
DiscoverySent(x) ==
    (x.stage # "none" /\ x.req[1].body.method = "getSupportedApiInfo") =>
        /\ Len(x.http) = 1
        /\ x.http[1].body = SerializeBody(x.req[1].body)
        /\ x.result.err \notin CapabilityErrors \cup {"BraviaAuthLevelError"}
\* C22: a dispatch of the discovery method getSupportedApiInfo never consults
\* the capability cache: it is sent to the device even when the cache is
\* empty, as it is during construction, and never fails with a
\* service-not-found, API-not-found or API-level error.
C22_DiscoveryNeverChecked ==
    /\ DiscoverySent(boot)
    /\ DiscoverySent(call)
C22_Witness ==
    /\ boot.stage = "done"
    /\ boot.http # <<>>
    /\ call.stage = "done"
    /\ call.input[1].op = "get_supported_api_info"
    /\ "guide" \notin DOMAIN api_support
    /\ is_api_supported(api_support, "guide", "getSupportedApiInfo", "1.0")
           = Err("BraviaApiServiceNotFound")
    /\ call.http # <<>>
    /\ call.result.kind = "Ok"

\* the X-Auth-PSK value of the request of exchange x on a client with the
\* given credential
PskOnlyWhenProtected(x, credential) ==
    x.http # <<>> =>
        /\ ~x.req[1].is_protected => x.http[1].psk = ""
        /\ x.http[1].psk # "" =>
               /\ x.req[1].is_protected
               /\ credential = Some(x.http[1].psk)
\* C25: an unprotected dispatch always sends an empty X-Auth-PSK value, also
\* when the client holds a stored credential: the stored credential appears
\* only in requests of protected dispatches.
C25_UnprotectedSendsEmptyPsk ==
    /\ boot.http # <<>> => boot.http[1].psk = ""
    /\ PskOnlyWhenProtected(call, auth)
C25_Witness ==
    /\ call.stage = "sent"
    /\ auth = Some("psk")
    /\ ~call.req[1].is_protected
    /\ call.input[1].op = "get_power_status"
    /\ call.http[1].psk = ""

\* C26: the capability check is ordered before the credential check: a
\* protected dispatch that is both unsupported by the cache and made on a
\* client without a credential fails with the capability error (service not
\* found, API not found or API level), never with BraviaAuthLevelError.
C26_CapabilityBeforeCredential ==
    (/\ call.stage # "none"
     /\ call.req[1].is_protected
     /\ auth = None
     /\ ~PassesCapability(api_support, call.req[1])) =>
        /\ call.result = is_api_supported(api_support, call.req[1].endpoint,
                                          call.req[1].body.method,
                                          call.req[1].body.version)
        /\ call.result.err \in CapabilityErrors
        /\ call.http = <<>>
C26_Witness ==
    /\ call.stage = "done"
    /\ call.req[1].is_protected
    /\ auth = None
    /\ call.input[1].op = "request_reboot"
    /\ ~InCache(api_support, "system", "requestReboot", "1.0")
    /\ call.result.err \in CapabilityErrors

\* the names of the services in a list of ServiceData
ServicesIn(val) == {JGet(val.a[i], "service")[1].s : i \in DOMAIN val.a}
\* exchange `call` is a finished get_supported_api_info that was answered
DiscoveryAnswered ==
    /\ call.stage = "done"
    /\ call.input[1].op = "get_supported_api_info"
    /\ call.resp # <<>>
\* C23 as stated: with a non-empty service list the operation returns only
\* the services named in that list.
C23_ReturnsOnlyNamedServices ==
    (/\ DiscoveryAnswered
     /\ call.ret.kind = "Ok"
     /\ call.input[1].services # None
     /\ call.input[1].services[1] # <<>>) =>
        ServicesIn(call.ret.val)
            \subseteq {call.input[1].services[1][i] : i \in DOMAIN call.input[1].services[1]}
\* C23 amended: the operation sends the list it was given as params.services
\* (no services key for None, an empty array for an empty list) and returns
\* the list of services the device answered with, unfiltered; an empty list
\* of services is the error MissingValue, not an empty success.
C23_ForwardsListReturnsAnswer ==
    (call.stage # "none" /\ call.input[1].op = "get_supported_api_info") =>
        LET services == call.input[1].services
            params == call.req[1].body.params
        IN  /\ Len(params) = 1
            /\ IF services = None
               THEN params[1] = JObj(<<>>, <<>>)
               ELSE /\ KeysOf(params[1]) = {"services"}
                    /\ JGet(params[1], "services")[1].t = "arr"
                    /\ JGet(params[1], "services")[1].a
                           = [i \in DOMAIN services[1] |-> JStr(services[1][i])]
            /\ (DiscoveryAnswered /\ call.result.kind = "Ok"
                    /\ IsServiceDataVec(call.result.val)) =>
                   IF call.result.val.a = <<>>
                   THEN call.ret = Err("MissingValue")
                   ELSE call.ret = Ok(call.result.val)
C23_Witness ==
    /\ DiscoveryAnswered
    /\ call.input[1].services = Some(<<"system">>)
    /\ call.ret.kind = "Ok"
    /\ "audio" \in ServicesIn(call.ret.val)

\* exchange `call` is a finished get_current_time whose dispatch extracted a
\* result
TimeExtracted ==
    /\ call.stage = "done"
    /\ call.input[1].op = "get_current_time"
    /\ call.result.kind = "Ok"
\* the version sent asks for the bare date-time string
StringVersion == call.input[1].version \in {None, Some("1.0")}
\* a Time whose two offset fields are None
OffsetsNone(time) ==
    /\ JGet(time, "time_zone_offset_minute") = Some(JNull)
    /\ JGet(time, "dst_offset_minute") = Some(JNull)
LastService(services, s) ==
    services[CHOOSE i \in DOMAIN services :
                 /\ services[i].service = s
                 /\ \A i2 \in DOMAIN services : i2 > i => services[i2].service # s]
LastApi(apis, m) ==
    apis[CHOOSE j \in DOMAIN apis :
             /\ apis[j].name = m
             /\ \A j2 \in DOMAIN apis : j2 > j => apis[j2].name # m]
\* C27: when the discovery response lists the same service name more than
\* once, or the same API name more than once inside a service, the cache
\* keeps only the versions of the last such entry (entries are replaced, not
\* merged), so a version listed only in an earlier duplicate is rejected by
\* the capability check.
C27_LastDuplicateReplaces ==
    phase = "ready" =>
        LET services == Discovered
        IN  /\ DOMAIN api_support = {services[i].service : i \in DOMAIN services}
            /\ \A s \in DOMAIN api_support :
                   LET apis == LastService(services, s).apis
                   IN  /\ DOMAIN api_support[s] = {apis[j].name : j \in DOMAIN apis}
                       /\ \A m \in DOMAIN api_support[s] :
                              api_support[s][m] = ApiVersions(LastApi(apis, m))
            /\ (/\ call.stage # "none"
                /\ call.req[1].body.method # "getSupportedApiInfo"
                /\ Listed(services, call.req[1].endpoint, call.req[1].body.method,
                          call.req[1].body.version)
                /\ ~ListedLast(services, call.req[1].endpoint, call.req[1].body.method,
                               call.req[1].body.version)) =>
                   /\ call.stage = "done"
                   /\ call.http = <<>>
                   /\ call.result.err \in {"BraviaApiNotFound", "BraviaApiLevelError"}
C27_Witness ==
    /\ phase = "ready"
    /\ Len(Discovered) = 2
    /\ Discovered[1].service = "system"
    /\ Discovered[2].service = "system"
    /\ Listed(<<Discovered[1]>>, "system", "getPowerStatus", "1.0")
    /\ Len(Discovered[2].apis) = 3
    /\ Discovered[2].apis[1].name = Discovered[2].apis[2].name
    /\ "getPowerStatus" \notin DOMAIN api_support["system"]
    /\ call.stage = "done"
    /\ call.input[1].op = "get_current_time"
    /\ call.input[1].version = Some("1.1")
    /\ call.result = Err("BraviaApiLevelError")

\* exchange x got a status-200 response whose body is not JSON
NotJson200(x) ==
    /\ x.stage = "done"
    /\ x.resp # <<>>
    /\ x.resp[1].ok
    /\ x.resp[1].status = 200
    /\ ~x.resp[1].body.valid
\* C28: a status-200 response whose body is not valid JSON makes the dispatch
\* fail with NetworkError (the transport library's error), not with
\* InvalidResponse or DeserializeError.
C28_NotJsonIsNetworkError ==
    /\ NotJson200(boot) => (boot.result = Err("NetworkError") /\ phase # "ready")
    /\ NotJson200(call) => call.result = Err("NetworkError")
C28_Witness ==
    /\ NotJson200(call)
    /\ call.input[1].op = "get_power_status"
    /\ call.result = Err("NetworkError")
    /\ call.result.err \notin {"InvalidResponse", "DeserializeError"}

\* C29: a status-200 response with no `result` key and an `error` key whose
\* value cannot be read as {code: non-negative integer, message: string}
\* makes the dispatch fail with DeserializeError, not with BraviaError or
\* InvalidResponse.
C29_UnreadableErrorIsDeserializeError ==
    (/\ Json200(call)
     /\ ~HasKey(call, "result")
     /\ HasKey(call, "error")
     /\ ~IsBraviaErrorCode(JGet(call.resp[1].body.json, "error")[1])) =>
        call.result = Err("DeserializeError")
C29_Witness ==
    /\ Json200(call)
    /\ ~HasKey(call, "result")
    /\ JGet(call.resp[1].body.json, "error")
           = Some(JObj(<<"code", "message">>, <<JNum(0 - 1), JStr("x")>>))
    /\ call.result = Err("DeserializeError")

====
